---- MODULE Spec2Model ----
(***************************************************************************)
(* GoScript: the in-browser toolchain host.                                *)
(*                                                                         *)
(*   Spec    the SDK driver (src/sdk/goscript.js, class GoScript):         *)
(*           init(), compile() and the foreign compiler/linker modules.    *)
(*   SpecCM  the pipeline driver (CompilationManager) with CacheManager.   *)
(*   SpecTL  ToolchainLoader.load with its IndexedDB pack store.           *)
(*   SpecPP  pack parsing (parseToolchain, getPackage) over a set of     *)
(*           well-formed and damaged packs.                                *)
(*   SpecInit   overlapping init() calls on the SDK driver.                *)
(*   SpecRun    run() on the SDK driver and compile() on the GoScript      *)
(*              wrapper, with their output capture.                        *)
(*   SpecReset  the SDK driver with reset().                               *)
(*   SpecFS     the in-memory file system and the fs shim over it, for the  *)
(*              SDK's VirtualFS/FSPolyfill and the page's                   *)
(*              VirtualFileSystem/FSPolyfill with AppRunner's capture.      *)
(*   SpecFD     the same shims with a descriptor open and the standard     *)
(*              library loaded: descriptors that share a file.             *)
(*   SpecAR     executeConsole() on one AppRunner and its Go object.       *)
(*   SpecLive   Spec with fairness: instantiations settle, modules exit.   *)
(*                                                                         *)
(* Every async function is a process whose program counter stops at its    *)
(* await points; the code between two awaits is one atomic step, as on     *)
(* the single-threaded event loop.                                         *)
(***************************************************************************)
EXTENDS Integers, Sequences, FiniteSets, TLC

\* ------------------------------------------------------------------ bounds
\* compile() invocations on one SDK driver
MaxSdkCalls == 2
\* init() invocations on one SDK driver
MaxSdkInits == 1
\* init() invocations on one SDK driver where they may overlap
MaxInitCalls == 3
\* run() invocations on one SDK driver
MaxRuns == 2
\* compile() invocations on one GoScript wrapper
MaxWrapperCompiles == 2
\* texts written to stdout
MaxWrites == 1
\* reset() invocations on one SDK driver
MaxResets == 1
\* compile() invocations on one CompilationManager
MaxCmCalls == 2
\* cancel() invocations on one CompilationManager
MaxCancels == 1
\* load() invocations over the lifetime of one pack store
MaxLoads == 2

\* ------------------------------------------------------------ byte helpers
EmptyFn == [x \in {} |-> TRUE]

\* 256^k for the byte positions of a 32-bit field (model values stay below 2^31,
\* so bytes 5..8 of a 64-bit field are zero)
Pow256(k) == CASE k = 0 -> 1 [] k = 1 -> 256 [] k = 2 -> 65536 [] k = 3 -> 16777216

\* Buffer.writeUInt16LE / writeUInt32LE / writeBigUInt64LE: n as k little-endian bytes
PutUint(n, k) == [i \in 1..k |-> IF i <= 4 THEN (n \div Pow256(i - 1)) % 256 ELSE 0]

\* DataView bounds check: reading k bytes at byte offset off
InRange(b, off, k) == off >= 0 /\ off + k <= Len(b)

RECURSIVE GetUint(_, _, _)
\* DataView.getUint16 / getUint32 / getBigUint64 (little-endian) at offset off
GetUint(b, off, k) ==
    IF k = 0 THEN 0 ELSE b[off + 1] + 256 * GetUint(b, off + 1, k - 1)

Min(a, b) == IF a < b THEN a ELSE b

\* ArrayBuffer.prototype.slice(begin, end): both ends are clamped
Slice(b, begin, end) == SubSeq(b, Min(begin, Len(b)) + 1, Min(end, Len(b)))

\* new Uint8Array(buffer, off, len) is a RangeError unless the view fits
ViewFits(b, off, len) == off <= Len(b) /\ off + len <= Len(b)

View(b, off, len) == SubSeq(b, off + 1, off + len)

RECURSIVE Concat(_)
Concat(ss) == IF ss = <<>> THEN <<>> ELSE Head(ss) \o Concat(Tail(ss))

RECURSIVE IsInfix(_, _)
\* String.prototype.includes
IsInfix(t, s) ==
    IF Len(t) > Len(s) THEN FALSE
    ELSE IF SubSeq(s, 1, Len(t)) = t THEN TRUE
    ELSE IsInfix(t, Tail(s))

\* "GoScript not initialized. Call init() first."
MsgNotInitialized == <<"G", "o", "S", "c", "r", "i", "p", "t", " ", "n", "o",
    "t", " ", "i", "n", "i", "t", "i", "a", "l", "i", "z", "e", "d", ".",
    " ", "C", "a", "l", "l", " ", "i", "n", "i", "t", "(", ")", " ", "f",
    "i", "r", "s", "t", ".">>
\* "Compilation already in progress"
MsgBusy == <<"C", "o", "m", "p", "i", "l", "a", "t", "i", "o", "n", " ", "a",
    "l", "r", "e", "a", "d", "y", " ", "i", "n", " ", "p", "r", "o", "g",
    "r", "e", "s", "s">>
\* "Compiler failed to produce output"
MsgCompilerNoOutput == <<"C", "o", "m", "p", "i", "l", "e", "r", " ", "f",
    "a", "i", "l", "e", "d", " ", "t", "o", " ", "p", "r", "o", "d", "u",
    "c", "e", " ", "o", "u", "t", "p", "u", "t">>
\* "Linker failed to produce output"
MsgLinkerNoOutput == <<"L", "i", "n", "k", "e", "r", " ", "f", "a", "i", "l",
    "e", "d", " ", "t", "o", " ", "p", "r", "o", "d", "u", "c", "e", " ",
    "o", "u", "t", "p", "u", "t">>
\* "Compilation failed: no output generated"
MsgNoOutputGenerated == <<"C", "o", "m", "p", "i", "l", "a", "t", "i", "o",
    "n", " ", "f", "a", "i", "l", "e", "d", ":", " ", "n", "o", " ", "o",
    "u", "t", "p", "u", "t", " ", "g", "e", "n", "e", "r", "a", "t", "e",
    "d">>
\* "Compilation failed: "
MsgCompilationFailedPrefix == <<"C", "o", "m", "p", "i", "l", "a", "t", "i",
    "o", "n", " ", "f", "a", "i", "l", "e", "d", ":", " ">>
\* "Initialization failed: "
MsgInitFailedPrefix == <<"I", "n", "i", "t", "i", "a", "l", "i", "z", "a",
    "t", "i", "o", "n", " ", "f", "a", "i", "l", "e", "d", ":", " ">>
\* "Failed to load toolchain: 404"
MsgFetchFailed == <<"F", "a", "i", "l", "e", "d", " ", "t", "o", " ", "l",
    "o", "a", "d", " ", "t", "o", "o", "l", "c", "h", "a", "i", "n", ":",
    " ", "4", "0", "4">>
\* "Invalid toolchain pack format"
MsgBadPackFormat == <<"I", "n", "v", "a", "l", "i", "d", " ", "t", "o", "o",
    "l", "c", "h", "a", "i", "n", " ", "p", "a", "c", "k", " ", "f", "o",
    "r", "m", "a", "t">>
\* "Unsupported pack version: "
MsgBadPackVersion == <<"U", "n", "s", "u", "p", "p", "o", "r", "t", "e", "d",
    " ", "p", "a", "c", "k", " ", "v", "e", "r", "s", "i", "o", "n", ":",
    " ">>
\* "Offset is outside the bounds of the DataView"
MsgRangeError == <<"O", "f", "f", "s", "e", "t", " ", "i", "s", " ", "o",
    "u", "t", "s", "i", "d", "e", " ", "t", "h", "e", " ", "b", "o", "u",
    "n", "d", "s", " ", "o", "f", " ", "t", "h", "e", " ", "D", "a", "t",
    "a", "V", "i", "e", "w">>
\* "Unexpected end of JSON input"
MsgJsonError == <<"U", "n", "e", "x", "p", "e", "c", "t", "e", "d", " ", "e",
    "n", "d", " ", "o", "f", " ", "J", "S", "O", "N", " ", "i", "n", "p",
    "u", "t">>
\* "Execution failed: "
MsgExecutionFailedPrefix == <<"E", "x", "e", "c", "u", "t", "i", "o", "n", " ",
    "f", "a", "i", "l", "e", "d", ":", " ">>
\* "WebAssembly.instantiate(): expected magic word"
MsgInstantiateFailed == <<"W", "e", "b", "A", "s", "s", "e", "m", "b", "l",
    "y", ".", "i", "n", "s", "t", "a", "n", "t", "i", "a", "t", "e", "(",
    ")", ":", " ", "e", "x", "p", "e", "c", "t", "e", "d", " ", "m", "a",
    "g", "i", "c", " ", "w", "o", "r", "d">>
\* "unreachable"
MsgModuleTrap == <<"u", "n", "r", "e", "a", "c", "h", "a", "b", "l", "e">>
\* "Compile"
TokenCompile == <<"C", "o", "m", "p", "i", "l", "e">>

\* ------------------------------------------------------------- pack format
\* ASCII "GOSCRIPT"
Magic == <<71, 79, 83, 67, 82, 73, 80, 84>>

PackVersion == 2

\* the pipeline has seven stages
StageCount == 7

RECURSIVE FindQuote(_, _)
\* index of the first '"' at or after position i, 0 when there is none
FindQuote(b, i) ==
    IF i > Len(b) THEN 0 ELSE IF b[i] = 34 THEN i ELSE FindQuote(b, i + 1)

RECURSIVE JsonElems(_, _, _)
\* the elements of a JSON array of strings, from the opening quote at i
JsonElems(b, i, acc) ==
    LET bad == [ok |-> FALSE, names |-> <<>>]
        j == FindQuote(b, i + 1)
    IN  IF i > Len(b) \/ b[i] # 34 \/ j = 0 \/ j + 1 > Len(b) THEN bad
        ELSE LET acc2 == Append(acc, SubSeq(b, i + 1, j - 1))
             IN  IF b[j + 1] = 93
                 THEN IF j + 1 = Len(b) THEN [ok |-> TRUE, names |-> acc2] ELSE bad
                 ELSE IF b[j + 1] = 44 THEN JsonElems(b, j + 2, acc2)
                 ELSE bad

\* JSON.parse(new TextDecoder().decode(indexBytes)) for an array of plain strings;
\* any other text, the empty text included, is a SyntaxError
JsonParse(b) ==
    IF b = <<91, 93>> THEN [ok |-> TRUE, names |-> <<>>]
    ELSE IF Len(b) < 2 \/ b[1] # 91 THEN [ok |-> FALSE, names |-> <<>>]
    ELSE JsonElems(b, 2, <<>>)

\* Map.prototype.set on an insertion-ordered map kept as a sequence of entries
MapSet(m, name, off, size) ==
    IF \E i \in 1..Len(m) : m[i].name = name
    THEN [i \in 1..Len(m) |->
             IF m[i].name = name THEN [name |-> name, offset |-> off, size |-> size]
             ELSE m[i]]
    ELSE Append(m, [name |-> name, offset |-> off, size |-> size])

MapHas(m, name) == \E i \in 1..Len(m) : m[i].name = name

MapGet(m, name) == m[CHOOSE i \in 1..Len(m) : m[i].name = name]

\* the offset recorded for an index entry: packageDataStart + Number(pkgOffset)
EntryOffset_Relative(packageDataStart, pkgOffset) ==
    pkgOffset

EntryOffset(packageDataStart, pkgOffset) ==
    packageDataStart + pkgOffset

RECURSIVE ParseIndex(_, _, _, _, _)
\* the loop over the package index entries; r carries the fields set so far
ParseIndex(b, indexPos, i, packageCount, r) ==
    IF i >= packageCount THEN r
    ELSE IF ~InRange(b, indexPos, 2) THEN [r EXCEPT !.err = "RangeError"]
    ELSE LET nameLen == GetUint(b, indexPos, 2)
             p1 == indexPos + 2
         IN  IF ~ViewFits(b, p1, nameLen) THEN [r EXCEPT !.err = "RangeError"]
             ELSE LET name == View(b, p1, nameLen)
                      p2 == p1 + nameLen
                  IN  IF ~InRange(b, p2, 8) \/ ~InRange(b, p2 + 8, 4)
                      THEN [r EXCEPT !.err = "RangeError"]
                      ELSE LET pkgOffset == GetUint(b, p2, 8)
                               pkgSize == GetUint(b, p2 + 8, 4)
                           IN  ParseIndex(b, p2 + 12, i + 1, packageCount,
                                   [r EXCEPT !.packageIndex =
                                       MapSet(@, name, EntryOffset(r.packageDataStart, pkgOffset),
                                              pkgSize)])

\* the magic test: the first 8 bytes decoded as UTF-8 equal 'GOSCRIPT', which
\* eight bytes do exactly when each of them is the ASCII byte
MagicOk_FirstSeven(b) ==
    SubSeq(b, 1, 7) = SubSeq(Magic, 1, 7)

MagicOk(b) ==
    View(b, 0, 8) = Magic

\* fields of a loader before any parse
NoParse ==
    [err |-> "", got |-> {}, compilerWasm |-> <<>>, linkerWasm |-> <<>>,
     packageNames |-> <<>>, packageDataStart |-> 0, packageIndex |-> <<>>]

\* ToolchainLoader.parseToolchain / GoScript._parseToolchainPack: the fields as
\* they stand when the parse returns or throws (err = "" when it returns);
\* index0 is the packageIndex map the entries are added to
ParsePack(b, index0) ==
    LET r0 == [NoParse EXCEPT !.packageIndex = index0]
    IN
    IF ~ViewFits(b, 0, 8) THEN [r0 EXCEPT !.err = "RangeError"]
    ELSE IF ~MagicOk(b) THEN [r0 EXCEPT !.err = "BadMagic"]
    ELSE IF ~InRange(b, 8, 4) THEN [r0 EXCEPT !.err = "RangeError"]
    ELSE IF GetUint(b, 8, 4) # PackVersion THEN [r0 EXCEPT !.err = "BadVersion"]
    ELSE IF ~InRange(b, 12, 4) THEN [r0 EXCEPT !.err = "RangeError"]
    ELSE
    LET compilerSize == GetUint(b, 12, 4)
        r1 == [r0 EXCEPT !.compilerWasm = Slice(b, 16, 16 + compilerSize),
                         !.got = {"compilerWasm"}]
        o1 == 16 + compilerSize
    IN
    IF ~InRange(b, o1, 4) THEN [r1 EXCEPT !.err = "RangeError"]
    ELSE
    LET linkerSize == GetUint(b, o1, 4)
        r2 == [r1 EXCEPT !.linkerWasm = Slice(b, o1 + 4, o1 + 4 + linkerSize),
                         !.got = @ \cup {"linkerWasm"}]
        o2 == o1 + 4 + linkerSize
    IN
    IF ~InRange(b, o2, 4) THEN [r2 EXCEPT !.err = "RangeError"]
    ELSE
    LET indexSize == GetUint(b, o2, 4)
        o3 == o2 + 4
    IN
    IF ~ViewFits(b, o3, indexSize) THEN [r2 EXCEPT !.err = "RangeError"]
    ELSE
    LET js == JsonParse(View(b, o3, indexSize))
        r3 == [r2 EXCEPT !.packageNames = js.names, !.got = @ \cup {"packageNames"}]
        o4 == o3 + indexSize
    IN
    IF ~js.ok THEN [r2 EXCEPT !.err = "SyntaxError"]
    ELSE IF ~InRange(b, o4, 4) \/ ~InRange(b, o4 + 4, 8) THEN [r3 EXCEPT !.err = "RangeError"]
    ELSE
    LET packageCount == GetUint(b, o4, 4)
        indexOffset == GetUint(b, o4 + 4, 8)
        r4 == [r3 EXCEPT !.packageDataStart = o4 + 12,
                         !.got = @ \cup {"packageDataStart"}]
    IN  ParseIndex(b, indexOffset, 0, packageCount, r4)

RECURSIVE PackIndexEntries(_, _)
\* the index entries the pack writer appends: (u16 nameLen, name, u64 offset, u32 size)
PackIndexEntries(pkgs, currentOffset) ==
    IF pkgs = <<>> THEN <<>>
    ELSE LET e == Head(pkgs)
         IN  PutUint(Len(e.name), 2) \o e.name \o PutUint(currentOffset, 8)
                 \o PutUint(Len(e.data), 4)
                 \o PackIndexEntries(Tail(pkgs), currentOffset + Len(e.data))

\* tools/pack-toolchain.sh: the bytes of a pack built from its four inputs
WritePack(compilerBytes, linkerBytes, indexBytes, pkgs) ==
    LET head == Magic \o PutUint(PackVersion, 4)
                  \o PutUint(Len(compilerBytes), 4) \o compilerBytes
                  \o PutUint(Len(linkerBytes), 4) \o linkerBytes
                  \o PutUint(Len(indexBytes), 4) \o indexBytes
                  \o PutUint(Len(pkgs), 4)
        data == Concat([i \in 1..Len(pkgs) |-> pkgs[i].data])
        newIndexOffset == Len(head) + 8 + Len(data)
    IN  head \o PutUint(newIndexOffset, 8) \o data \o PackIndexEntries(pkgs, 0)

\* --------------------------------------------------------- modelled inputs
\* package names "fmt" and "os" as UTF-8 bytes
NameFmt == <<102, 109, 116>>

NameOs == <<111, 115>>

\* ["fmt","os"]
IndexJson == <<91, 34>> \o NameFmt \o <<34, 44, 34>> \o NameOs \o <<34, 93>>

CompilerBytes == <<0, 97, 115, 109, 1, 0, 0, 0, 10>>

LinkerBytes == <<0, 97, 115, 109, 1, 0, 0, 0, 20>>

\* a pack as the writer produces it, with two archives
GoodPack ==
    WritePack(CompilerBytes, LinkerBytes, IndexJson,
              << [name |-> NameFmt, data |-> <<33, 60, 1>>],
                 [name |-> NameOs, data |-> <<33, 60, 2, 2>>] >>)

\* the same pack with the last magic byte altered ('T' -> 'U')
BadMagicPack == [GoodPack EXCEPT ![8] = 85]

\* the same pack with version 3
BadVersionPack == [GoodPack EXCEPT ![9] = 3]

\* the same pack cut off inside the package index
TruncatedPack == SubSeq(GoodPack, 1, Len(GoodPack) - 5)

Packs == {GoodPack, BadMagicPack, BadVersionPack, TruncatedPack}

\* TextDecoder.decode of a package name, for the names the modelled packs carry
DecodeName(bytes) ==
    CASE bytes = NameFmt -> "fmt"
      [] bytes = NameOs -> "os"
      [] OTHER -> "?"

\* the file name `${name}.a`
ArchiveName(name) ==
    CASE name = "fmt" -> "fmt.a"
      [] name = "os" -> "os.a"
      [] OTHER -> "?.a"

\* ---------------------------------------------------------------- contents
\* a file's content is a text string (kept as its UTF-16 code units) or bytes
Str(s) == [t |-> "string", v |-> s]

Bin(s) == [t |-> "bytes", v |-> s]

\* WebAssembly header: magic 00 61 73 6D, version 01 00 00 00
WasmHeader == <<0, 97, 115, 109, 1, 0, 0, 0>>

\* what a foreign compiler run may leave in the object file
ObjOutputs == {<<33, 60, 97>>}

\* what a foreign linker run may leave in the output file: a well-formed module,
\* one with version 2, one without the magic, one shorter than a header
WasmOutputs ==
    { WasmHeader \o <<7>>,
      <<0, 97, 115, 109, 2, 0, 0, 0, 7>>,
      <<127, 69, 76, 70, 1, 0, 0, 0, 7>>,
      <<0, 97, 115>> }

\* source texts "Aa", "BB" and "C"
Texts == {<<65, 97>>, <<66, 66>>, <<67>>}

\* ------------------------------------------------------------------ paths
\* a path string is kept as the sequence path.split('/') of its segments:
\* "/tmp/build" is <<"", "tmp", "build">>, "/" is <<"", "">>, "a/b" is <<"a", "b">>
Root == <<"", "">>

\* String.prototype.startsWith('/')
StartsWithSlash(path) == Len(path) >= 2 /\ path[1] = ""

\* parts.join('/') || '/' for a list of segments
JoinOrRoot(parts) == IF parts = <<>> \/ parts = <<"">> THEN Root ELSE parts

\* ------------------------------------------------ VirtualFS (SDK driver)
RECURSIVE ResolveParts(_, _)
\* VirtualFS._normalize: the loop resolving '..'
ResolveParts(parts, resolved) ==
    IF parts = <<>> THEN resolved
    ELSE IF Head(parts) = ".."
         THEN ResolveParts(Tail(parts),
                  IF resolved = <<>> THEN <<>> ELSE SubSeq(resolved, 1, Len(resolved) - 1))
         ELSE ResolveParts(Tail(parts), Append(resolved, Head(parts)))

\* VirtualFS._normalize
SdkNormalize(path) ==
    LET abs == IF StartsWithSlash(path) THEN path ELSE <<"">> \o path
        parts == SelectSeq(abs, LAMBDA p : p # "" /\ p # ".")
        resolved == ResolveParts(parts, <<>>)
    IN  IF resolved = <<>> THEN Root ELSE <<"">> \o resolved

\* VirtualFS._dirname
SdkDirname(path) == JoinOrRoot(SubSeq(path, 1, Len(path) - 1))

RECURSIVE SdkEnsureDir(_, _)
\* VirtualFS._ensureDir
SdkEnsureDir(dirs, path) ==
    IF path # <<"">> /\ path # Root
    THEN SdkEnsureDir(dirs \cup {path}, SdkDirname(path))
    ELSE dirs

\* new VirtualFS()
NewVirtualFS == [made |-> TRUE, files |-> EmptyFn, dirs |-> {Root}, cwd |-> Root]

FnPut(f, k, v) == [x \in DOMAIN f \cup {k} |-> IF x = k THEN v ELSE f[x]]

\* VirtualFS.writeFile
SdkWriteFile(vfs, path, content) ==
    LET normalized == SdkNormalize(path)
    IN  [vfs EXCEPT !.files = FnPut(@, normalized, content),
                    !.dirs = SdkEnsureDir(@, SdkDirname(normalized))]

\* VirtualFS.exists
SdkExists(vfs, path) == SdkNormalize(path) \in DOMAIN vfs.files

\* VirtualFS.mkdir
SdkMkdir(vfs, path) == [vfs EXCEPT !.dirs = @ \cup {SdkNormalize(path)}]

RECURSIVE SdkLoadPackages(_, _, _, _)
\* GoScript._loadPackagesIntoVFS from entry i on: the VFS afterwards, and
\* err = "RangeError" when an entry's view does not fit the pack
SdkLoadPackages(vfs, packData, index, i) ==
    IF i > Len(index) THEN [err |-> "", vfs |-> vfs]
    ELSE IF ~ViewFits(packData, index[i].offset, index[i].size)
    THEN [err |-> "RangeError", vfs |-> vfs]
    ELSE SdkLoadPackages(
             SdkWriteFile(vfs, <<"", "pkg", "js_wasm", ArchiveName(DecodeName(index[i].name))>>,
                          Bin(View(packData, index[i].offset, index[i].size))),
             packData, index, i + 1)

\* ------------------------------------------------------- SDK driver: state
VARIABLES
    sdkState,       \* this.state: initialized, compilerReady, compiling
    sdkVfs,         \* this.vfs
    sdkToolchain,   \* this.toolchain, this.compilerWasm, this.linkerWasm
    sdkPolyfill,    \* this.fsPolyfill has been created and patched in
    sdkInit,        \* the init() invocations
    sdkCall,        \* the compile() invocations
    sdkErrors,      \* the messages passed to options.onError, in order
    sdkProgress,    \* the last percentage passed to options.onProgress
    sdkFetches      \* number of fetch(packUrl) requests issued

sdkVars ==
    <<sdkState, sdkVfs, sdkToolchain, sdkPolyfill, sdkInit, sdkCall, sdkErrors,
      sdkProgress, sdkFetches>>

SdkIds == 1..MaxSdkCalls

SdkInitIds == 1..MaxSdkInits

TempDir == <<"", "tmp", "build">>

ObjPath == <<"", "tmp", "build", "main.o">>

WasmPath == <<"", "tmp", "build", "main.wasm">>

\* the arguments compile() is called with: a source string, or a files object
SdkSources ==
    { [kind |-> "string", text |-> <<65, 97>>, files |-> <<>>],
      [kind |-> "object", text |-> <<>>,
       files |-> << [name |-> "main.go", content |-> <<66, 66>>],
                    [name |-> "util.go", content |-> <<67>>] >>] }

\* compile(): "Normalize source to object format"
SdkSourceFiles(source) ==
    IF source.kind = "string"
    THEN << [name |-> "main.go", content |-> source.text] >>
    ELSE source.files

RECURSIVE SdkWriteSources(_, _)
\* compile(): the loop writing every source file below tempDir
SdkWriteSources(vfs, files) ==
    IF files = <<>> THEN vfs
    ELSE SdkWriteSources(
             SdkWriteFile(vfs, Append(TempDir, Head(files).name), Str(Head(files).content)),
             Tail(files))

\* the responses fetch(packUrl) can resolve with
Responses ==
    {[ok |-> FALSE, body |-> <<>>]} \cup {[ok |-> TRUE, body |-> p] : p \in Packs}

\* the responses the SDK driver's fetch is checked with
SdkResponses == {r \in Responses : r.body \in {<<>>, GoodPack, BadMagicPack}}

DigitChar(n) == <<"0", "1", "2", "3", "4", "5", "6", "7", "8", "9">>[(n % 10) + 1]

RECURSIVE Decimal(_)
\* a number in a template literal: its decimal digits
Decimal(n) == IF n < 10 THEN <<DigitChar(n)>> ELSE Append(Decimal(n \div 10), DigitChar(n))

\* error.message of what _parseToolchainPack or a typed-array constructor throws
SdkParseMessage(err, packData) ==
    CASE err = "BadMagic" -> MsgBadPackFormat
      [] err = "BadVersion" -> MsgBadPackVersion \o Decimal(GetUint(packData, 8, 4))
      [] err = "SyntaxError" -> MsgJsonError
      [] OTHER -> MsgRangeError

NoToolchain ==
    [loaded |-> FALSE, packData |-> <<>>, compilerWasm |-> <<>>, linkerWasm |-> <<>>,
     packageNames |-> <<>>, packageIndex |-> <<>>, packageDataStart |-> 0]

IdleCall ==
    [pc |-> "idle", source |-> [kind |-> "string", text |-> <<>>, files |-> <<>>],
     outcome |-> "none", error |-> <<>>, wasm |-> <<>>, insts |-> {},
     busyAtEntry |-> FALSE, afterFailure |-> FALSE, objAtExit |-> "none"]

SdkInFlight(c) == sdkCall[c].pc \in {"compInst", "compRun", "linkInst", "linkRun"}

\* the most recently finished compile() resolved with success:false
SdkLastFailed ==
    /\ \A c \in SdkIds : ~SdkInFlight(c)
    /\ \E c \in SdkIds :
          /\ sdkCall[c].outcome = "failure"
          /\ \A d \in SdkIds : d > c => sdkCall[d].pc = "idle"

\* a driver as its constructor leaves it, with the init() calls to come
SdkStart(inits) ==
    /\ sdkState = [initialized |-> FALSE, compilerReady |-> FALSE, compiling |-> FALSE]
    /\ sdkVfs = [made |-> FALSE, files |-> EmptyFn, dirs |-> {}, cwd |-> Root]
    /\ sdkToolchain = NoToolchain
    /\ sdkPolyfill = FALSE
    /\ sdkInit = [i \in inits |-> "idle"]
    /\ sdkCall = [c \in SdkIds |-> IdleCall]
    /\ sdkErrors = <<>>
    /\ sdkProgress = 0
    /\ sdkFetches = 0

InitSdk == SdkStart(SdkInitIds)

\* ------------------------------ VirtualFileSystem (pipeline driver)
\* VirtualFileSystem.normalizePath: a leading '/' is added and runs of '/'
\* collapse, so only the first and the last segment may be empty
CmNormalize(path) ==
    LET abs == IF StartsWithSlash(path) THEN path ELSE <<"">> \o path
        interior == SelectSeq(SubSeq(abs, 2, Len(abs) - 1), LAMBDA p : p # "")
    IN  <<"">> \o interior \o <<abs[Len(abs)]>>

\* VirtualFileSystem.getDirectory
CmGetDirectory(filePath) == JoinOrRoot(SubSeq(filePath, 1, Len(filePath) - 1))

\* VirtualFileSystem.ensureDirectoryExists
CmEnsureDirectoryExists(dirs, dirPath) ==
    IF dirPath # Root THEN dirs \cup {dirPath} ELSE dirs

\* new VirtualFileSystem()
NewVirtualFileSystem == [files |-> EmptyFn, dirs |-> {}, cwd |-> Root]

\* VirtualFileSystem.writeFile
CmWriteFile(vfs, path, content) ==
    LET normalizedPath == CmNormalize(path)
    IN  [vfs EXCEPT !.files = FnPut(@, normalizedPath, content),
                    !.dirs = CmEnsureDirectoryExists(@, CmGetDirectory(normalizedPath))]

\* VirtualFileSystem.exists
CmExists(vfs, path) == CmNormalize(path) \in DOMAIN vfs.files

\* VirtualFileSystem.mkdir
CmMkdir(vfs, path) == [vfs EXCEPT !.dirs = @ \cup {CmNormalize(path)}]

RECURSIVE CmWriteAll(_, _, _)
\* a loop writing every entry of sourceFiles below the directory prefix
CmWriteAll(vfs, prefix, files) ==
    IF files = <<>> THEN vfs
    ELSE CmWriteAll(CmWriteFile(vfs, prefix \o <<Head(files).name>>,
                                Str(Head(files).content)),
                    prefix, Tail(files))

\* VirtualFileSystem.loadGoSources
CmLoadGoSources(vfs, sourceFiles) ==
    CmMkdir(CmMkdir(CmMkdir(CmWriteAll(vfs, <<>>, sourceFiles),
                            <<"", "src">>), <<"", "pkg">>), <<"", "bin">>)

RECURSIVE CmLoadAllPackages(_, _, _, _)
\* ToolchainLoader.loadAllPackagesIntoVFS from entry i on
CmLoadAllPackages(vfs, packData, index, i) ==
    IF i > Len(index) THEN [err |-> "", vfs |-> vfs]
    ELSE IF ~ViewFits(packData, index[i].offset, index[i].size)
    THEN [err |-> "RangeError", vfs |-> vfs]
    ELSE CmLoadAllPackages(
             CmWriteFile(vfs, <<"", "pkg", "js_wasm", ArchiveName(DecodeName(index[i].name))>>,
                         Bin(View(packData, index[i].offset, index[i].size))),
             packData, index, i + 1)

\* ------------------------------------------------- CacheManager: the hash
\* the UTF-16 code units of the file names the model uses
NameCodes(name) ==
    CASE name = "main.go" -> <<109, 97, 105, 110, 46, 103, 111>>
      [] name = "util.go" -> <<117, 116, 105, 108, 46, 103, 111>>
      [] OTHER -> <<63>>

RECURSIVE CodesLess(_, _)
\* the default Array.prototype.sort order on strings: by code units
CodesLess(a, b) ==
    IF b = <<>> THEN FALSE
    ELSE IF a = <<>> THEN TRUE
    ELSE IF Head(a) # Head(b) THEN Head(a) < Head(b)
    ELSE CodesLess(Tail(a), Tail(b))

RECURSIVE InsertKey(_, _)
InsertKey(sorted, k) ==
    IF sorted = <<>> THEN <<k>>
    ELSE IF CodesLess(NameCodes(k), NameCodes(Head(sorted))) THEN <<k>> \o sorted
    ELSE <<Head(sorted)>> \o InsertKey(Tail(sorted), k)

RECURSIVE SortLoop(_, _)
SortLoop(keys, sorted) ==
    IF keys = <<>> THEN sorted ELSE SortLoop(Tail(keys), InsertKey(sorted, Head(keys)))

SortedKeys_Unsorted(keys) == keys

\* Object.keys(sourceFiles).sort()
SortedKeys(keys) == SortLoop(keys, <<>>)

\* the own-property names of sourceFiles, in insertion order
ObjectKeys(files) == [i \in 1..Len(files) |-> files[i].name]

\* sourceFiles[name]
Lookup(files, name) == files[CHOOSE i \in 1..Len(files) : files[i].name = name].content

RECURSIVE StringifyProps(_, _, _)
StringifyProps(files, keys, first) ==
    IF keys = <<>> THEN <<>>
    ELSE (IF first THEN <<>> ELSE <<44>>)
         \o <<34>> \o NameCodes(Head(keys)) \o <<34, 58, 34>>
         \o Lookup(files, Head(keys)) \o <<34>>
         \o StringifyProps(files, Tail(keys), FALSE)

\* JSON.stringify(sourceFiles, keys): the listed properties, in the order of
\* keys, of an object whose values are plain strings
JsonStringify(files, keys) == <<123>> \o StringifyProps(files, keys, TRUE) \o <<125>>

RECURSIVE HashLoop(_, _, _)
\* CacheManager.simpleHash: hash = (hash << 5) - hash + char, cut to 32 bits;
\* the 32-bit value is kept as two 16-bit halves
HashLoop(str, i, h) ==
    IF i > Len(str) THEN h
    ELSE LET lo1 == 31 * h.lo + str[i]
         IN  HashLoop(str, i + 1,
                 [hi |-> (31 * h.hi + lo1 \div 65536) % 65536, lo |-> lo1 % 65536])

\* Math.abs of the signed 32-bit value
Abs32(h) ==
    IF h.hi < 32768 THEN h
    ELSE IF h.lo = 0 THEN [hi |-> 65536 - h.hi, lo |-> 0]
    ELSE [hi |-> 65535 - h.hi, lo |-> 65536 - h.lo]

\* the character code of a base-36 digit
Digit36(d) == IF d < 10 THEN 48 + d ELSE 87 + d

RECURSIVE ToString36(_)
\* Number.prototype.toString(36)
ToString36(h) ==
    LET t == (h.hi % 36) * 65536 + h.lo
        q == [hi |-> h.hi \div 36, lo |-> t \div 36]
    IN  IF q.hi = 0 /\ q.lo = 0 THEN <<Digit36(t % 36)>>
        ELSE Append(ToString36(q), Digit36(t % 36))

\* CacheManager.simpleHash
SimpleHash(str) == ToString36(Abs32(HashLoop(str, 1, [hi |-> 0, lo |-> 0])))

\* CacheManager.generateSourceHash
GenerateSourceHash(sourceFiles) ==
    SimpleHash(JsonStringify(sourceFiles, SortedKeys(ObjectKeys(sourceFiles))))

\* the record key `wasm_${sourceHash}`
WasmKey(sourceHash) == <<119, 97, 115, 109, 95>> \o sourceHash

\* ------------------------------------------ CompilationManager: state
VARIABLES
    cmStatus,          \* this.status
    cmVfs,             \* this.vfs, a VirtualFileSystem
    cmToolchain,       \* this.compileWasmBytes, this.linkWasmBytes, this.compilerLoaded
    cmFilesToCompile,  \* this.filesToCompile
    cmStore,           \* the 'compiledWasm' object store of the CacheManager
    cmCall,            \* the compile() invocations
    cmErrors,          \* the messages passed to callbacks.onError, in order
    cmLoads,           \* number of ToolchainLoader.load calls made by loadCompiler
    cmCancels,         \* number of cancel() calls made
    cmLast,            \* the compile() invocation that finished most recently (0: none)
    cmTickets          \* number of transactions opened on the 'compiledWasm' store

cmVars ==
    <<cmStatus, cmVfs, cmToolchain, cmFilesToCompile, cmStore, cmCall, cmErrors,
      cmLoads, cmCancels, cmLast, cmTickets>>

CmIds == 1..MaxCmCalls

\* the sourceFiles objects compile() is called with, as lists of properties in
\* insertion order: {main.go: "Aa", util.go: "C"}, the same object built in the
\* other key order, and {main.go: "BB", util.go: "C"}
CmInputs ==
    { << [name |-> "main.go", content |-> <<65, 97>>],
         [name |-> "util.go", content |-> <<67>>] >>,
      << [name |-> "util.go", content |-> <<67>>],
         [name |-> "main.go", content |-> <<65, 97>>] >>,
      << [name |-> "main.go", content |-> <<66, 66>>],
         [name |-> "util.go", content |-> <<67>>] >> }

\* CompilationManager.generateMockWasm: the header followed by random bytes
MockOutputs == {WasmHeader \o <<1>>, WasmHeader \o <<2>>}

MsgGetFailed == "Failed to retrieve cached WASM"

MsgPutFailed == "Failed to cache WASM binary"

MsgInvalidWasm == "Invalid WASM binary generated"

\* CompilationManager.validateWasmBinary
ValidateWasmBinary(wasmBinary) ==
    IF Len(wasmBinary) < 8 THEN FALSE
    ELSE /\ wasmBinary[1] = 0
         /\ wasmBinary[2] = 97
         /\ wasmBinary[3] = 115
         /\ wasmBinary[4] = 109

\* VirtualFileSystem.getGoFiles: the count of stored paths ending in ".go"
GoFileCount(vfs) ==
    Cardinality({p \in DOMAIN vfs.files : p[Len(p)] \in {"main.go", "util.go"}})

\* CompilationManager.generateMetadata (the timestamp and byte total left out)
GenerateMetadata(vfs) == [sourceFiles |-> GoFileCount(vfs), target |-> "js/wasm"]

\* CompilationManager.setupBuildEnvironment; the config text is kept as "{}"
SetupBuildEnvironment(vfs) ==
    CmWriteFile(CmMkdir(CmMkdir(CmMkdir(vfs, <<"", "tmp">>), <<"", "build">>),
                        <<"", "output">>),
                <<"", "build", "config.json">>, Str(<<123, 125>>))

CmObjPath == <<"", "tmp", "main.o">>

CmWasmPath == <<"", "tmp", "main.wasm">>

CmIdleCall ==
    [pc |-> "idle", inputs |-> <<>>, sourceHash |-> <<>>, wasm |-> <<>>,
     outcome |-> "none", error |-> "", result |-> <<>>, events |-> <<>>,
     progress |-> -1, completed |-> FALSE, insts |-> {}, fromCache |-> FALSE,
     pending |-> "", statusAtEntry |-> "idle", aloneAtEntry |-> FALSE,
     storeFailed |-> FALSE, ticket |-> 0]

CmInFlight(c) == cmCall[c].pc \notin {"idle", "done"}

\* the outcomes of loadCompiler: the packed toolchain loaded; the pack failed and
\* of the separately fetched files only compile.wasm arrived; nothing arrived
LoadOutcomes == {"pack", "compilerOnly", "none"}

\* IndexedDB runs the transactions of one store in the order they were opened,
\* except that read-only transactions do not wait for each other: the request
\* of call c can settle once no conflicting earlier transaction is pending
CmStoreReady(c) ==
    \A d \in CmIds \ {c} :
        (cmCall[d].pc \in {"cacheGet", "cachePut"} /\ cmCall[d].ticket < cmCall[c].ticket)
            => (cmCall[c].pc = "cacheGet" /\ cmCall[d].pc = "cacheGet")

InitCm ==
    /\ cmStatus = "idle"
    /\ cmVfs = NewVirtualFileSystem
    /\ cmToolchain = [compileSet |-> FALSE, compileWasmBytes |-> <<>>,
                      linkSet |-> FALSE, linkWasmBytes |-> <<>>,
                      compilerLoaded |-> FALSE]
    /\ cmFilesToCompile = <<>>
    /\ cmStore = EmptyFn
    /\ cmCall = [c \in CmIds |-> CmIdleCall]
    /\ cmErrors = <<>>
    /\ cmLoads = 0
    /\ cmCancels = 0
    /\ cmLast = 0
    /\ cmTickets = 0


\* ------------------------------------------- ToolchainLoader.load: state
VARIABLES
    tlStore,    \* the 'toolchain' object store of the GoScriptCache database
    tlLoad,     \* the load() invocations, each on a loader of its own
    tlFetches   \* number of fetch(url) calls made

tlVars == <<tlStore, tlLoad, tlFetches>>

TlIds == 1..MaxLoads

\* a loader as its constructor leaves it, before load() is called
TlIdle ==
    [pc |-> "idle", packData |-> <<>>, compilerWasm |-> <<>>, linkerWasm |-> <<>>,
     packageNames |-> <<>>, packageIndex |-> <<>>, packageDataStart |-> 0,
     loaded |-> FALSE, outcome |-> "none", error |-> "", fromCache |-> FALSE,
     fetched |-> FALSE, storeFault |-> FALSE]

InitTl ==
    /\ tlStore = [has |-> FALSE, data |-> <<>>]
    /\ tlLoad = [l \in TlIds |-> TlIdle]
    /\ tlFetches = 0

\* ------------------------------------------------- pack parsing: inputs
\* what the pack writer is given: compile.wasm, link.wasm, index.json and the
\* archives it copies, in index order
WriterInputs ==
    {[compilerBytes |-> c, linkerBytes |-> l, indexBytes |-> p.indexBytes, pkgs |-> p.pkgs] :
        c \in {<<>>, <<7>>, CompilerBytes},
        l \in {<<>>, LinkerBytes},
        p \in {[indexBytes |-> <<91, 93>>, pkgs |-> <<>>],
               [indexBytes |-> <<91, 34>> \o NameFmt \o <<34, 93>>,
                pkgs |-> << [name |-> NameFmt, data |-> <<33, 60, 1>>] >>],
               [indexBytes |-> IndexJson,
                pkgs |-> << [name |-> NameFmt, data |-> <<33, 60, 1>>],
                            [name |-> NameOs, data |-> <<33, 60, 2, 2>>] >>],
               [indexBytes |-> IndexJson,
                pkgs |-> << [name |-> NameFmt, data |-> <<>>],
                            [name |-> NameOs, data |-> <<33, 60, 2, 2>>] >>],
               [indexBytes |-> <<91, 93>>,
                pkgs |-> << [name |-> NameOs, data |-> <<9>>],
                            [name |-> NameFmt, data |-> <<8, 8>>] >>]}}

\* no writer inputs: the pack was not made by the writer
NotWritten == [compilerBytes |-> <<>>, linkerBytes |-> <<>>, indexBytes |-> <<>>, pkgs |-> <<>>]

\* magic, version 2, three zero-length sections and package count 0
EmptyPack ==
    Magic \o PutUint(PackVersion, 4) \o PutUint(0, 4) \o PutUint(0, 4) \o PutUint(0, 4)
          \o PutUint(0, 4)

\* the same as the writer lays it out, with the index offset field
EmptyWrittenPack == WritePack(<<>>, <<>>, <<>>, <<>>)

\* the packs a parse is checked with, each with the writer inputs it came from:
\* the writer's packs, and GoodPack with one byte of the magic altered, with
\* one byte of the version altered, cut short at every length, and with one
\* declared length or offset altered (the compiler, linker and index section
\* lengths, the package count, the index offset, and the data offset and size
\* of the last index entry), and the two empty packs
PackInputs ==
    LET AlteredMagic ==
            {[GoodPack EXCEPT ![i] = v] : i \in 1..8, v \in {0, 32, 85, 103, 255}}
        AlteredVersion ==
            {[GoodPack EXCEPT ![i] = v] : i \in 9..12, v \in {0, 1, 3}} \ {GoodPack}
        Cut == {SubSeq(GoodPack, 1, n) : n \in 0..(Len(GoodPack) - 1)}
        sections == Len(CompilerBytes) + Len(LinkerBytes)
        Overrun ==
            {[GoodPack EXCEPT ![13] = 250],
             [GoodPack EXCEPT ![17 + Len(CompilerBytes)] = 250],
             [GoodPack EXCEPT ![21 + sections] = 250],
             [GoodPack EXCEPT ![25 + sections + Len(IndexJson)] = 3],
             [GoodPack EXCEPT ![29 + sections + Len(IndexJson)] = 250],
             [GoodPack EXCEPT ![Len(GoodPack) - 11] = 250],
             [GoodPack EXCEPT ![Len(GoodPack) - 3] = 200]}
    IN  {[written |-> w,
          bytes |-> WritePack(w.compilerBytes, w.linkerBytes, w.indexBytes, w.pkgs)] :
            w \in WriterInputs}
        \cup {[written |-> NotWritten, bytes |-> b] :
                b \in AlteredMagic \cup AlteredVersion \cup Cut \cup Overrun
                      \cup {EmptyPack, EmptyWrittenPack}}

\* the names getPackage is asked for: "fmt", "os" and "x"
PackageQueries == {NameFmt, NameOs, <<120>>}

\* ---------------------------------------------------- pack parsing: state
VARIABLES
    ppWritten,  \* the writer inputs the pack was made from (NotWritten if none)
    ppPack,     \* the pack bytes handed to the loader and to the SDK driver
    ppLoader,   \* a ToolchainLoader whose store holds ppPack
    ppGot,      \* what the last getPackage call returned or threw
    ppVfs       \* the outcome of loadAllPackagesIntoVFS on a fresh file system

ppVars == <<ppWritten, ppPack, ppLoader, ppGot, ppVfs>>

\* a fresh loader with the pack in its store; nothing asked of it yet
PpStart(in) ==
    /\ ppWritten = in.written
    /\ ppPack = in.bytes
    /\ ppLoader = TlIdle
    /\ ppGot = [name |-> <<>>, status |-> "none", data |-> <<>>]
    /\ ppVfs = [status |-> "none", vfs |-> NewVirtualFileSystem]

\* outside the parsing specification there is no pack under test
InitPp == PpStart([written |-> NotWritten, bytes |-> <<>>])

InitPpDrawn == \E in \in PackInputs : PpStart(in)

\* ------------------------------------------- run() and output capture: state
\* an output callback is 0, the one in place before any call, or the number
\* of the invocation whose capturing closure it is
VARIABLES
    rnOnOutput,         \* the SDK driver's options.onOutput
    rnWriteSync,        \* whether globalThis.fs.writeSync is _setupOutputCapture's
    rnRun,              \* the run() invocations on the SDK driver
    rnUser,             \* the texts the SDK user's onOutput callback received
    rnAddConsoleOutput, \* window.addConsoleOutput
    rnWrap,             \* the compile() invocations on the GoScript wrapper
    rnPage,             \* the texts the page's addConsoleOutput received
    rnWrites            \* number of texts written to stdout so far

runVars == <<rnOnOutput, rnWriteSync, rnRun, rnUser, rnAddConsoleOutput, rnWrap, rnPage,
             rnWrites>>

RunIds == 1..MaxRuns

WrapIds == 1..MaxWrapperCompiles

\* the codes a program passes to exit
ExitCodes == {0, 2}

InitRun ==
    /\ rnOnOutput = 0
    /\ rnWriteSync = FALSE
    /\ rnRun = [r \in RunIds |->
           [pc |-> "idle", originalCallback |-> 0, output |-> <<>>, exited |-> -1,
            result |-> [success |-> FALSE, output |-> <<>>, error |-> <<>>, exitCode |-> -1]]]
    /\ rnUser = <<>>
    /\ rnAddConsoleOutput = 0
    /\ rnWrap = [w \in WrapIds |->
           [pc |-> "idle", originalAddConsoleOutput |-> 0, output |-> <<>>]]
    /\ rnPage = <<>>
    /\ rnWrites = 0

\* ------------------------------------------------------------ reset(): state
VARIABLES
    sdkResets   \* number of reset() calls made on the SDK driver

\* ------------------------------------- file system shim (FSPolyfill): state
\* operations made on one file system and its shim
MaxFsOps == 3

\* the shim is FSPolyfill of src/sdk/goscript.js over VirtualFS ("sdk"), or
\* FSPolyfill of src/script/fs-polyfill.js over VirtualFileSystem ("page")
VARIABLES
    fsImpl,     \* which of the two implementations this file system is
    fsConsole,  \* whether window.addConsoleOutput is defined
    fsVfs,      \* the file system the shim works on
    fsFds,      \* FSPolyfill.fds: descriptor -> [path, flags, content, position]
    fsNextFd,   \* FSPolyfill.nextFd
    fsNextBuf,  \* number of Uint8Array objects made so far
    fsCapture,  \* whether output capture has replaced the shim's write functions
    fsSink,     \* the texts the output sink received
    fsReturned, \* the descriptors the FSPolyfill's open has returned so far
    fsLast,     \* the last operation, its arguments and its result
    fsOps,      \* number of operations made so far
    fsPack      \* the bytes of the archive of package fmt inside packData

fsVars == <<fsImpl, fsConsole, fsVfs, fsFds, fsNextFd, fsNextBuf, fsCapture, fsSink,
            fsReturned, fsLast, fsOps, fsPack>>

\* a Uint8Array: its bytes, and which object it is (two holders of one
\* object see each other's in-place writes)
Buf(bytes, id) == [t |-> "bytes", v |-> bytes, id |-> id]

\* the paths handed to the file system: "/a/f", "/a/./f", "f", "/a/b/g", "d"
FsPaths ==
    { <<"", "a", "f">>, <<"", "a", ".", "f">>, <<"f">>, <<"", "a", "b", "g">>, <<"d">> }

\* the directories handed to process.chdir: "/" and "/a"
FsDirs == { Root, <<"", "a">> }

\* the buffers handed to write and writeSync: "hello\n" and "é" in UTF-8
FsBufs == { <<104, 101, 108, 108, 111, 10>>, <<195, 169>> }

\* open flags: O_RDONLY, O_WRONLY|O_CREAT, O_WRONLY|O_CREAT|O_TRUNC
FsFlags == { 0, 65, 577 }

\* "/pkg/js_wasm/fmt.a", where the archive of package fmt is loaded
PkgPath == <<"", "pkg", "js_wasm", "fmt.a">>

\* the archive of package fmt as the pack holds it: every view made of it
\* with new Uint8Array(packData, offset, size) is on these same bytes
PackView == Buf(<<33, 60, 1>>, -1)

\* an argument that was null
Null == <<>>

\* what an operation reported: who handled it, its arguments, its return
\* value or callback value, and its error ("" when there was none)
FsResult(op, by, fd, path, data, pos, ret, err) ==
    [op |-> op, by |-> by, fd |-> fd, path |-> path, data |-> data, pos |-> pos,
     ret |-> ret, err |-> err]

\* the state after new FSPolyfill(vfs, ...).patch() on a new file system
FsStart(impls) ==
    /\ fsImpl \in impls
    /\ fsConsole \in (IF fsImpl = "page" THEN BOOLEAN ELSE {FALSE})
    /\ fsVfs = (IF fsImpl = "sdk" THEN NewVirtualFS ELSE NewVirtualFileSystem)
    /\ fsFds = EmptyFn
    /\ fsNextFd = 100
    /\ fsNextBuf = 0
    /\ fsCapture = FALSE
    /\ fsSink = <<>>
    /\ fsReturned = {}
    /\ fsLast = FsResult("patch", "shim", 0, <<>>, <<>>, Null, 0, "")
    /\ fsOps = 0
    /\ fsPack = PackView

InitFs == FsStart({"sdk"})

\* ------------------------------------------------------- AppRunner: state
\* executeConsole() invocations on one AppRunner
MaxExecs == 2

\* init() calls on one AppRunner
MaxArInits == 1

\* a Go object is described by what go.run reads and writes: the number of
\* run() calls made on it, whether its _exitPromise has been resolved, its
\* exited flag, and its _inst (the module of the execution with that number)
VARIABLES
    arGo,        \* this.go
    arInstance,  \* this.wasmInstance: the execution whose module it is (0: none or a mock)
    arExec,      \* the executeConsole() invocations
    arModule,    \* the module each invocation instantiated
    arInits      \* number of init() calls made

arVars == <<arGo, arInstance, arExec, arModule, arInits>>

ArIds == 1..MaxExecs

\* new Go()
NewGo == [made |-> TRUE, runs |-> 0, exitResolved |-> FALSE, exited |-> FALSE, inst |-> 0]

InitAr ==
    /\ arGo = [NewGo EXCEPT !.made = FALSE]
    /\ arInstance = 0
    /\ arExec = [e \in ArIds |->
           [pc |-> "idle", module |-> 0, freshGo |-> FALSE, exitedAtReturn |-> FALSE]]
    /\ arModule = [e \in ArIds |-> "none"]
    /\ arInits = 0

\* ------------------------------------------------------- frame conditions
\* what the steps of one component leave alone
nonSdkVars == <<cmVars, tlVars, ppVars, runVars, sdkResets, fsVars, arVars>>

nonCmVars == <<sdkVars, tlVars, ppVars, runVars, sdkResets, fsVars, arVars>>

nonTlVars == <<sdkVars, cmVars, ppVars, runVars, sdkResets, fsVars, arVars>>

nonPpVars == <<cmVars, tlVars, runVars, sdkResets, fsVars, arVars>>

nonRunVars == <<cmVars, tlVars, ppVars, sdkResets, fsVars, arVars>>

\* ----------------------------------------------------- SDK driver: actions
\* GoScript.init up to its first await (the fetch inside _loadToolchain)
SdkInitCall(i) ==
    /\ sdkInit[i] = "idle"
    /\ \A j \in DOMAIN sdkInit : j < i => sdkInit[j] # "idle"
    /\ IF sdkState.initialized
       THEN /\ sdkInit' = [sdkInit EXCEPT ![i] = "returned"]
            /\ UNCHANGED <<sdkVfs, sdkProgress, sdkFetches>>
       ELSE /\ sdkInit' = [sdkInit EXCEPT ![i] = "fetch"]
            /\ sdkVfs' = NewVirtualFS
            /\ sdkProgress' = 10
            /\ sdkFetches' = sdkFetches + 1
    /\ UNCHANGED <<sdkState, sdkToolchain, sdkPolyfill, sdkCall, sdkErrors>>
    /\ UNCHANGED nonSdkVars

\* GoScript.init from the fetch response to its end: _loadToolchain parses the
\* pack and loads the archives, then _setupGoRuntime and the state flags
SdkInitFetched(i, response) ==
    /\ sdkInit[i] = "fetch"
    /\ LET r == ParsePack(response.body, <<>>)
           toolchain == [loaded |-> TRUE, packData |-> response.body,
                         compilerWasm |-> r.compilerWasm, linkerWasm |-> r.linkerWasm,
                         packageNames |-> r.packageNames, packageIndex |-> r.packageIndex,
                         packageDataStart |-> r.packageDataStart]
           ld == SdkLoadPackages(sdkVfs, response.body, r.packageIndex, 1)
           Throw(message) ==
               /\ sdkErrors' = Append(sdkErrors, MsgInitFailedPrefix \o message)
               /\ sdkInit' = [sdkInit EXCEPT ![i] = "threw"]
               /\ UNCHANGED sdkState
       IN  IF ~response.ok
           THEN /\ Throw(MsgFetchFailed)
                /\ UNCHANGED <<sdkVfs, sdkToolchain, sdkProgress>>
           ELSE IF r.err # ""
           THEN /\ Throw(SdkParseMessage(r.err, response.body))
                /\ sdkProgress' = 50
                /\ UNCHANGED <<sdkVfs, sdkToolchain>>
           ELSE IF ld.err # ""
           THEN /\ Throw(SdkParseMessage(ld.err, response.body))
                /\ sdkToolchain' = toolchain
                /\ sdkVfs' = ld.vfs
                /\ sdkProgress' = 70
           ELSE /\ sdkToolchain' = toolchain
                /\ sdkVfs' = ld.vfs
                /\ sdkState' = [sdkState EXCEPT !.initialized = TRUE, !.compilerReady = TRUE]
                /\ sdkProgress' = 100
                /\ sdkInit' = [sdkInit EXCEPT ![i] = "returned"]
                /\ UNCHANGED sdkErrors
    /\ UNCHANGED <<sdkPolyfill, sdkCall, sdkFetches>>
    /\ UNCHANGED nonSdkVars

SdkFinally_Skipped(state) == state

\* compile(): the finally block
SdkFinally(state) == [state EXCEPT !.compiling = FALSE]

\* compile(): the catch and finally blocks, for an error with this message
SdkCatch_Latched(c, message, objAtExit) ==
    /\ sdkErrors' = Append(sdkErrors, MsgCompilationFailedPrefix \o message)
    /\ sdkCall' = [sdkCall EXCEPT ![c].pc = "done", ![c].outcome = "failure",
                                  ![c].error = message, ![c].objAtExit = objAtExit]
    /\ UNCHANGED sdkState

SdkCatch(c, message, objAtExit) ==
    /\ sdkErrors' = Append(sdkErrors, MsgCompilationFailedPrefix \o message)
    /\ sdkCall' = [sdkCall EXCEPT ![c].pc = "done", ![c].outcome = "failure",
                                  ![c].error = message, ![c].objAtExit = objAtExit]
    /\ sdkState' = SdkFinally(sdkState)

SdkBusy_Never == FALSE

\* compile(): the guard `if (this.state.compiling)`
SdkBusy == sdkState.compiling

\* GoScript.compile up to its first await: the guards, the source files, and
\* _runCompiler as far as WebAssembly.instantiate(this.compilerWasm, ...)
SdkCompileCall(c, source) ==
    /\ sdkCall[c].pc = "idle"
    /\ \A d \in SdkIds : d < c => sdkCall[d].pc # "idle"
    /\ LET entry == [sdkCall[c] EXCEPT
                        !.source = source,
                        !.busyAtEntry = \E d \in SdkIds : SdkInFlight(d),
                        !.afterFailure = SdkLastFailed]
       IN  IF ~sdkState.initialized
           THEN /\ sdkCall' = [sdkCall EXCEPT ![c] =
                       [entry EXCEPT !.pc = "done", !.outcome = "rejected",
                                     !.error = MsgNotInitialized]]
                /\ UNCHANGED <<sdkState, sdkVfs, sdkPolyfill, sdkProgress>>
           ELSE IF SdkBusy
           THEN /\ sdkCall' = [sdkCall EXCEPT ![c] =
                       [entry EXCEPT !.pc = "done", !.outcome = "rejected",
                                     !.error = MsgBusy]]
                /\ UNCHANGED <<sdkState, sdkVfs, sdkPolyfill, sdkProgress>>
           ELSE /\ sdkState' = [sdkState EXCEPT !.compiling = TRUE]
                /\ sdkVfs' = SdkWriteSources(SdkMkdir(sdkVfs, TempDir), SdkSourceFiles(source))
                /\ sdkProgress' = 30
                /\ sdkPolyfill' = TRUE
                /\ sdkCall' = [sdkCall EXCEPT ![c] =
                       [entry EXCEPT !.pc = "compInst", !.insts = {"compiler"}]]
    /\ UNCHANGED <<sdkToolchain, sdkInit, sdkErrors, sdkFetches>>
    /\ UNCHANGED nonSdkVars

\* WebAssembly.instantiate settles, for the compiler or the linker module;
\* when it resolves, go.run starts the module
SdkInstantiated(c, ok) ==
    /\ sdkCall[c].pc \in {"compInst", "linkInst"}
    /\ IF ok
       THEN /\ sdkCall' = [sdkCall EXCEPT ![c].pc =
                              IF sdkCall[c].pc = "compInst" THEN "compRun" ELSE "linkRun"]
            /\ UNCHANGED <<sdkState, sdkErrors>>
       ELSE SdkCatch(c, MsgInstantiateFailed, sdkCall[c].objAtExit)
    /\ UNCHANGED <<sdkVfs, sdkToolchain, sdkPolyfill, sdkInit, sdkProgress, sdkFetches>>
    /\ UNCHANGED nonSdkVars

\* the running compiler module writes its -o file through the shim
SdkCompilerWrites(c, bytes) ==
    /\ sdkCall[c].pc = "compRun"
    /\ sdkVfs' = SdkWriteFile(sdkVfs, ObjPath, Bin(bytes))
    /\ UNCHANGED <<sdkState, sdkToolchain, sdkPolyfill, sdkInit, sdkCall, sdkErrors,
                   sdkProgress, sdkFetches>>
    /\ UNCHANGED nonSdkVars

\* the running linker module writes its -o file through the shim
SdkLinkerWrites(c, bytes) ==
    /\ sdkCall[c].pc = "linkRun"
    /\ sdkVfs' = SdkWriteFile(sdkVfs, WasmPath, Bin(bytes))
    /\ UNCHANGED <<sdkState, sdkToolchain, sdkPolyfill, sdkInit, sdkCall, sdkErrors,
                   sdkProgress, sdkFetches>>
    /\ UNCHANGED nonSdkVars

SdkObjectProduced_Unchecked(vfs) == TRUE

\* _runCompiler: the check `this.vfs.exists('/tmp/build/main.o')`
SdkObjectProduced(vfs) == SdkExists(vfs, ObjPath)

\* _runCompiler after `await go.run`: the compiler module has exited (go.run
\* resolves whatever the exit code) or go.run has thrown; then compile() goes
\* on into _runLinker as far as WebAssembly.instantiate(this.linkerWasm, ...)
SdkCompilerExit(c, threw) ==
    /\ sdkCall[c].pc = "compRun"
    /\ LET objAtExit == IF SdkNormalize(ObjPath) \in DOMAIN sdkVfs.files
                        THEN "present" ELSE "absent"
       IN  IF threw
           THEN /\ SdkCatch(c, MsgModuleTrap, "none")
                /\ UNCHANGED sdkProgress
           ELSE IF ~SdkObjectProduced(sdkVfs)
           THEN /\ SdkCatch(c, MsgCompilerNoOutput, objAtExit)
                /\ UNCHANGED sdkProgress
           ELSE /\ sdkProgress' = 60
                /\ sdkCall' = [sdkCall EXCEPT ![c].pc = "linkInst",
                                              ![c].insts = @ \cup {"linker"},
                                              ![c].objAtExit = objAtExit]
                /\ UNCHANGED <<sdkState, sdkErrors>>
    /\ UNCHANGED <<sdkVfs, sdkToolchain, sdkPolyfill, sdkInit, sdkFetches>>
    /\ UNCHANGED nonSdkVars

\* _runLinker after `await go.run`, and the rest of compile(): read the output
SdkLinkerExit(c, threw) ==
    /\ sdkCall[c].pc = "linkRun"
    /\ IF threw
       THEN /\ SdkCatch(c, MsgModuleTrap, sdkCall[c].objAtExit)
            /\ UNCHANGED sdkProgress
       ELSE IF ~SdkExists(sdkVfs, WasmPath)
       THEN /\ SdkCatch(c, MsgLinkerNoOutput, sdkCall[c].objAtExit)
            /\ UNCHANGED sdkProgress
       ELSE IF ~SdkExists(sdkVfs, WasmPath)
       THEN /\ SdkCatch(c, MsgNoOutputGenerated, sdkCall[c].objAtExit)
            /\ sdkProgress' = 90
       ELSE /\ sdkProgress' = 100
            /\ sdkCall' = [sdkCall EXCEPT ![c].pc = "done", ![c].outcome = "success",
                                          ![c].wasm = sdkVfs.files[SdkNormalize(WasmPath)].v]
            /\ sdkState' = SdkFinally(sdkState)
            /\ UNCHANGED sdkErrors
    /\ UNCHANGED <<sdkVfs, sdkToolchain, sdkPolyfill, sdkInit, sdkFetches>>
    /\ UNCHANGED nonSdkVars

NextSdk ==
    \/ \E i \in SdkInitIds : SdkInitCall(i)
    \/ \E i \in SdkInitIds : \E response \in SdkResponses : SdkInitFetched(i, response)
    \/ \E c \in SdkIds : \E source \in SdkSources : SdkCompileCall(c, source)
    \/ \E c \in SdkIds : \E ok \in BOOLEAN : SdkInstantiated(c, ok)
    \/ \E c \in SdkIds : \E bytes \in ObjOutputs : SdkCompilerWrites(c, bytes)
    \/ \E c \in SdkIds : \E bytes \in WasmOutputs : SdkLinkerWrites(c, bytes)
    \/ \E c \in SdkIds : \E threw \in BOOLEAN : SdkCompilerExit(c, threw)
    \/ \E c \in SdkIds : \E threw \in BOOLEAN : SdkLinkerExit(c, threw)

\* the events compile() emits between the cache lookup and the build setup
CmMissEvents_Stage3Early ==
    << <<3, "active">>, <<2, "complete">>, <<3, "complete">>, <<4, "active">> >>

CmMissEvents ==
    << <<2, "complete">>, <<3, "active">>, <<3, "complete">>, <<4, "active">> >>

\* ----------------------------------------- CompilationManager: actions
\* compile(): the catch block, for an error with this message
CmCatch(c, message, storeFailed) ==
    /\ cmStatus' = "error"
    /\ cmErrors' = Append(cmErrors, message)
    /\ cmCall' = [cmCall EXCEPT ![c].pc = "done", ![c].outcome = "rejected",
                                ![c].error = message, ![c].storeFailed = storeFailed]
    /\ cmLast' = c

\* compile() up to its first await, inside loadCompiler
CmCompileCall(c, sourceFiles) ==
    /\ cmCall[c].pc = "idle"
    /\ \A d \in CmIds : d < c => cmCall[d].pc # "idle"
    /\ cmStatus' = "compiling"
    /\ cmFilesToCompile' = sourceFiles
    /\ cmLoads' = cmLoads + 1
    /\ cmCall' = [cmCall EXCEPT ![c] =
           [@ EXCEPT !.pc = "load", !.inputs = sourceFiles, !.progress = 0,
                     !.events = << <<1, "active">> >>,
                     !.statusAtEntry = cmStatus,
                     !.aloneAtEntry = \A d \in CmIds : ~CmInFlight(d)]]
    /\ UNCHANGED <<cmVfs, cmToolchain, cmStore, cmErrors, cmCancels, cmLast, cmTickets>>
    /\ UNCHANGED nonCmVars

\* loadCompiler settles (it never rejects) with one of LoadOutcomes; compile()
\* ends stage 1, hashes its sourceFiles and getCachedWasm opens its transaction
CmLoadCompilerDone(c, outcome) ==
    /\ cmCall[c].pc = "load"
    /\ LET r == ParsePack(GoodPack, <<>>)
       IN  CASE outcome = "pack" ->
                /\ cmToolchain' = [compileSet |-> TRUE, compileWasmBytes |-> r.compilerWasm,
                                   linkSet |-> TRUE, linkWasmBytes |-> r.linkerWasm,
                                   compilerLoaded |-> TRUE]
                /\ cmVfs' = CmLoadAllPackages(cmVfs, GoodPack, r.packageIndex, 1).vfs
             [] outcome = "compilerOnly" ->
                /\ cmToolchain' = [cmToolchain EXCEPT !.compileSet = TRUE,
                                                      !.compileWasmBytes = CompilerBytes,
                                                      !.compilerLoaded = TRUE]
                /\ UNCHANGED cmVfs
             [] OTHER ->
                /\ cmToolchain' = [cmToolchain EXCEPT !.compilerLoaded = TRUE]
                /\ UNCHANGED cmVfs
    /\ cmTickets' = cmTickets + 1
    /\ cmCall' = [cmCall EXCEPT ![c] =
           [@ EXCEPT !.pc = "cacheGet", !.progress = 15,
                     !.events = @ \o << <<1, "complete">>, <<2, "active">> >>,
                     !.sourceHash = GenerateSourceHash(cmCall[c].inputs),
                     !.ticket = cmTickets + 1]]
    /\ UNCHANGED <<cmStatus, cmFilesToCompile, cmStore, cmErrors, cmLoads, cmCancels, cmLast>>
    /\ UNCHANGED nonCmVars

\* getCachedWasm settles: the request failed, or it found a record (compile()
\* returns it), or it found none (compile() stages the sources and the build
\* directories)
CmCacheGetDone(c, ok) ==
    /\ cmCall[c].pc = "cacheGet"
    /\ CmStoreReady(c)
    /\ LET key == WasmKey(cmCall[c].sourceHash)
       IN  IF ~ok
           THEN /\ CmCatch(c, MsgGetFailed, TRUE)
                /\ UNCHANGED cmVfs
           ELSE IF key \in DOMAIN cmStore
           THEN /\ cmStatus' = "complete"
                /\ cmCall' = [cmCall EXCEPT ![c] =
                       [@ EXCEPT !.pc = "done", !.progress = 100,
                                 !.events = Append(@, <<2, "complete">>),
                                 !.completed = TRUE, !.fromCache = TRUE,
                                 !.outcome = "resolved",
                                 !.result = cmStore[key].wasmBinary]]
                /\ cmLast' = c
                /\ UNCHANGED <<cmVfs, cmErrors>>
           ELSE /\ cmVfs' = SetupBuildEnvironment(CmLoadGoSources(cmVfs, cmCall[c].inputs))
                /\ cmCall' = [cmCall EXCEPT ![c] =
                       [@ EXCEPT !.pc = "buildEnv", !.progress = 40,
                                 !.events = @ \o CmMissEvents]]
                /\ UNCHANGED <<cmStatus, cmErrors, cmLast>>
    /\ UNCHANGED <<cmToolchain, cmFilesToCompile, cmStore, cmLoads, cmCancels, cmTickets>>
    /\ UNCHANGED nonCmVars

\* compile() after `await this.setupBuildEnvironment()`: compileToWasm starts
\* runGoCompiler (as far as instantiating the compiler) or the mock delay
CmBuildEnvReady(c) ==
    /\ cmCall[c].pc = "buildEnv"
    /\ LET real == /\ cmToolchain.compileSet
                   /\ cmToolchain.linkSet
                   /\ cmFilesToCompile # <<>>
       IN  /\ cmVfs' = IF real THEN CmWriteAll(cmVfs, <<"", "tmp">>, cmFilesToCompile)
                       ELSE cmVfs
           /\ cmCall' = [cmCall EXCEPT ![c] =
                  [@ EXCEPT !.pc = IF real THEN "compInst" ELSE "mockDelay",
                            !.progress = 55,
                            !.events = @ \o << <<4, "complete">>, <<5, "active">> >>,
                            !.insts = IF real THEN {"compiler"} ELSE {}]]
    /\ UNCHANGED <<cmStatus, cmToolchain, cmFilesToCompile, cmStore, cmErrors, cmLoads,
                   cmCancels, cmLast, cmTickets>>
    /\ UNCHANGED nonCmVars

\* WebAssembly.instantiate settles for the compiler or the linker; a rejection
\* is caught by compileToWasm, which falls back to the mock
CmInstantiated(c, ok) ==
    /\ cmCall[c].pc \in {"compInst", "linkInst"}
    /\ cmCall' = [cmCall EXCEPT ![c].pc =
           IF ~ok THEN "mockDelay"
           ELSE IF cmCall[c].pc = "compInst" THEN "compRun" ELSE "linkRun"]
    /\ UNCHANGED <<cmStatus, cmVfs, cmToolchain, cmFilesToCompile, cmStore, cmErrors,
                   cmLoads, cmCancels, cmLast, cmTickets>>
    /\ UNCHANGED nonCmVars

\* the running compiler module writes /tmp/main.o through the shim
CmCompilerWrites(c, bytes) ==
    /\ cmCall[c].pc = "compRun"
    /\ cmVfs' = CmWriteFile(cmVfs, CmObjPath, Bin(bytes))
    /\ UNCHANGED <<cmStatus, cmToolchain, cmFilesToCompile, cmStore, cmCall, cmErrors,
                   cmLoads, cmCancels, cmLast, cmTickets>>
    /\ UNCHANGED nonCmVars

\* the running linker module writes /tmp/main.wasm through the shim
CmLinkerWrites(c, bytes) ==
    /\ cmCall[c].pc = "linkRun"
    /\ cmVfs' = CmWriteFile(cmVfs, CmWasmPath, Bin(bytes))
    /\ UNCHANGED <<cmStatus, cmToolchain, cmFilesToCompile, cmStore, cmCall, cmErrors,
                   cmLoads, cmCancels, cmLast, cmTickets>>
    /\ UNCHANGED nonCmVars

\* compile() once compileToWasm has produced wasmBinary: stage 5 ends, stage 6
\* starts and cacheCompiledWasm issues its put request
CmStage5Done(c, wasmBinary) ==
    /\ cmTickets' = cmTickets + 1
    /\ cmCall' = [cmCall EXCEPT ![c] =
           [@ EXCEPT !.pc = "cachePut", !.progress = 80, !.wasm = wasmBinary,
                     !.events = @ \o << <<5, "complete">>, <<6, "active">> >>,
                     !.ticket = cmTickets + 1]]

\* runGoCompiler after `await goCompile.run`: the check for main.o, then the
\* linker is instantiated; a failure is caught by compileToWasm
CmCompilerExit(c, threw) ==
    /\ cmCall[c].pc = "compRun"
    /\ cmCall' = [cmCall EXCEPT ![c] =
           IF threw \/ ~CmExists(cmVfs, CmObjPath)
           THEN [@ EXCEPT !.pc = "mockDelay"]
           ELSE [@ EXCEPT !.pc = "linkInst", !.insts = @ \cup {"linker"}]]
    /\ UNCHANGED <<cmStatus, cmVfs, cmToolchain, cmFilesToCompile, cmStore, cmErrors,
                   cmLoads, cmCancels, cmLast, cmTickets>>
    /\ UNCHANGED nonCmVars

\* runGoCompiler after `await goLink.run`: the check for main.wasm and the read
CmLinkerExit(c, threw) ==
    /\ cmCall[c].pc = "linkRun"
    /\ IF threw \/ ~CmExists(cmVfs, CmWasmPath)
       THEN /\ cmCall' = [cmCall EXCEPT ![c].pc = "mockDelay"]
            /\ UNCHANGED cmTickets
       ELSE CmStage5Done(c, cmVfs.files[CmNormalize(CmWasmPath)].v)
    /\ UNCHANGED <<cmStatus, cmVfs, cmToolchain, cmFilesToCompile, cmStore, cmErrors,
                   cmLoads, cmCancels, cmLast>>
    /\ UNCHANGED nonCmVars

\* compileToWasm's fallback: after the delay, generateMockWasm
CmMockDone(c, mockWasm) ==
    /\ cmCall[c].pc = "mockDelay"
    /\ CmStage5Done(c, mockWasm)
    /\ UNCHANGED <<cmStatus, cmVfs, cmToolchain, cmFilesToCompile, cmStore, cmErrors,
                   cmLoads, cmCancels, cmLast>>
    /\ UNCHANGED nonCmVars

\* cacheCompiledWasm settles; on success compile() runs the body of
\* prepareBinary (validate, write /output/main.wasm) and awaits it
CmCachePutDone(c, ok) ==
    /\ cmCall[c].pc = "cachePut"
    /\ CmStoreReady(c)
    /\ LET wasmBinary == cmCall[c].wasm
           valid == ValidateWasmBinary(wasmBinary)
       IN  IF ~ok
           THEN /\ CmCatch(c, MsgPutFailed, TRUE)
                /\ UNCHANGED <<cmVfs, cmStore>>
           ELSE /\ cmStore' = FnPut(cmStore, WasmKey(cmCall[c].sourceHash),
                                    [sourceHash |-> cmCall[c].sourceHash,
                                     wasmBinary |-> wasmBinary,
                                     metadata |-> GenerateMetadata(cmVfs)])
                /\ cmVfs' = IF valid
                            THEN CmWriteFile(cmVfs, <<"", "output", "main.wasm">>,
                                             Bin(wasmBinary))
                            ELSE cmVfs
                /\ cmCall' = [cmCall EXCEPT ![c] =
                       [@ EXCEPT !.pc = "prepare", !.progress = 95,
                                 !.events = @ \o << <<6, "complete">>, <<7, "active">> >>,
                                 !.pending = IF valid THEN "" ELSE MsgInvalidWasm]]
                /\ UNCHANGED <<cmStatus, cmErrors, cmLast>>
    /\ UNCHANGED <<cmToolchain, cmFilesToCompile, cmLoads, cmCancels, cmTickets>>
    /\ UNCHANGED nonCmVars

\* compile() after `await this.prepareBinary(wasmBinary)`
CmPrepared(c) ==
    /\ cmCall[c].pc = "prepare"
    /\ IF cmCall[c].pending # ""
       THEN CmCatch(c, cmCall[c].pending, FALSE)
       ELSE /\ cmStatus' = "complete"
            /\ cmCall' = [cmCall EXCEPT ![c] =
                   [@ EXCEPT !.pc = "done", !.progress = 100,
                             !.events = Append(@, <<7, "complete">>),
                             !.completed = TRUE, !.outcome = "resolved",
                             !.result = cmCall[c].wasm]]
            /\ cmLast' = c
            /\ UNCHANGED cmErrors
    /\ UNCHANGED <<cmVfs, cmToolchain, cmFilesToCompile, cmStore, cmLoads, cmCancels,
                   cmTickets>>
    /\ UNCHANGED nonCmVars

\* CompilationManager.cancel
CmCancel ==
    /\ cmCancels < MaxCancels
    /\ cmCancels' = cmCancels + 1
    /\ cmStatus' = IF cmStatus = "compiling" THEN "cancelled" ELSE cmStatus
    /\ UNCHANGED <<cmVfs, cmToolchain, cmFilesToCompile, cmStore, cmCall, cmErrors,
                   cmLoads, cmLast, cmTickets>>
    /\ UNCHANGED nonCmVars

NextCm ==
    \/ \E c \in CmIds : \E sourceFiles \in CmInputs : CmCompileCall(c, sourceFiles)
    \/ \E c \in CmIds : \E outcome \in LoadOutcomes : CmLoadCompilerDone(c, outcome)
    \/ \E c \in CmIds : \E ok \in BOOLEAN : CmCacheGetDone(c, ok)
    \/ \E c \in CmIds : CmBuildEnvReady(c)
    \/ \E c \in CmIds : \E ok \in BOOLEAN : CmInstantiated(c, ok)
    \/ \E c \in CmIds : \E bytes \in ObjOutputs : CmCompilerWrites(c, bytes)
    \/ \E c \in CmIds : \E bytes \in WasmOutputs : CmLinkerWrites(c, bytes)
    \/ \E c \in CmIds : \E threw \in BOOLEAN : CmCompilerExit(c, threw)
    \/ \E c \in CmIds : \E threw \in BOOLEAN : CmLinkerExit(c, threw)
    \/ \E c \in CmIds : \E mockWasm \in MockOutputs : CmMockDone(c, mockWasm)
    \/ \E c \in CmIds : \E ok \in BOOLEAN : CmCachePutDone(c, ok)
    \/ \E c \in CmIds : CmPrepared(c)
    \/ CmCancel

\* --------------------------------------- ToolchainLoader.load: actions
\* load() is called: getCached awaits openDB
TlLoadCall(l) ==
    /\ tlLoad[l].pc = "idle"
    /\ \A k \in TlIds : k < l => tlLoad[k].pc # "idle"
    /\ tlLoad' = [tlLoad EXCEPT ![l].pc = "openGet"]
    /\ UNCHANGED <<tlStore, tlFetches>>
    /\ UNCHANGED nonTlVars

\* load() from parseToolchain on: the fields the parse set before it returned
\* or threw, and the way load() settles
TlParse(rec, packData) ==
    LET r == ParsePack(packData, rec.packageIndex)
        parsed == [rec EXCEPT !.packData = packData,
                              !.compilerWasm = r.compilerWasm,
                              !.linkerWasm = r.linkerWasm,
                              !.packageNames = r.packageNames,
                              !.packageIndex = r.packageIndex,
                              !.packageDataStart = r.packageDataStart]
    IN  IF r.err = ""
        THEN [parsed EXCEPT !.pc = "done", !.loaded = TRUE, !.outcome = "resolved"]
        ELSE [parsed EXCEPT !.pc = "done", !.outcome = "rejected", !.error = r.err]

\* getCached once a rejected get request is handled: not awaited inside the
\* try block, the rejection passes the catch and load() rejects with it
TlGetFailed(rec) ==
    [rec EXCEPT !.pc = "done", !.outcome = "rejected", !.error = "request.error",
                !.storeFault = TRUE]

\* openDB settles, in getCached or in setCache; a failure is caught there
TlOpenDone(l, ok) ==
    /\ tlLoad[l].pc \in {"openGet", "openPut"}
    /\ IF tlLoad[l].pc = "openGet"
       THEN /\ tlLoad' = [tlLoad EXCEPT ![l] =
                   IF ok THEN [@ EXCEPT !.pc = "get"]
                   ELSE [@ EXCEPT !.pc = "fetch", !.storeFault = TRUE]]
            /\ tlFetches' = IF ok THEN tlFetches ELSE tlFetches + 1
       ELSE /\ tlLoad' = [tlLoad EXCEPT ![l] =
                   IF ok THEN [@ EXCEPT !.pc = "put"]
                   ELSE TlParse([@ EXCEPT !.storeFault = TRUE], tlLoad[l].packData)]
            /\ UNCHANGED tlFetches
    /\ UNCHANGED tlStore
    /\ UNCHANGED nonTlVars

\* load()'s test of what getCached resolved with (request.result || null):
\* a stored ArrayBuffer of any length is truthy
TlCacheHit_Never ==
    FALSE

TlCacheHit ==
    tlStore.has

\* the get request of getCached settles
TlGetDone(l, ok) ==
    /\ tlLoad[l].pc = "get"
    /\ tlLoad' = [tlLoad EXCEPT ![l] =
           IF ~ok THEN TlGetFailed(@)
           ELSE IF TlCacheHit THEN TlParse([@ EXCEPT !.fromCache = TRUE], tlStore.data)
           ELSE [@ EXCEPT !.pc = "fetch"]]
    /\ tlFetches' = IF tlLoad'[l].pc = "fetch" THEN tlFetches + 1 ELSE tlFetches
    /\ UNCHANGED tlStore
    /\ UNCHANGED nonTlVars

\* fetch(url) and response.arrayBuffer() settle; setCache awaits openDB
TlFetched(l, response) ==
    /\ tlLoad[l].pc = "fetch"
    /\ tlLoad' = [tlLoad EXCEPT ![l] =
           IF ~response.ok
           THEN [@ EXCEPT !.pc = "done", !.outcome = "rejected", !.error = "HttpStatus"]
           ELSE [@ EXCEPT !.pc = "openPut", !.packData = response.body, !.fetched = TRUE]]
    /\ UNCHANGED <<tlStore, tlFetches>>
    /\ UNCHANGED nonTlVars

\* the put request of setCache settles; a rejection is not caught (no await
\* inside the try block) and load() rejects with it
TlPutDone(l, ok) ==
    /\ tlLoad[l].pc = "put"
    /\ IF ok
       THEN /\ tlStore' = [has |-> TRUE, data |-> tlLoad[l].packData]
            /\ tlLoad' = [tlLoad EXCEPT ![l] = TlParse(@, tlLoad[l].packData)]
       ELSE /\ tlLoad' = [tlLoad EXCEPT ![l] =
                   [@ EXCEPT !.pc = "done", !.outcome = "rejected",
                             !.error = "request.error", !.storeFault = TRUE]]
            /\ UNCHANGED tlStore
    /\ UNCHANGED tlFetches
    /\ UNCHANGED nonTlVars

NextTl ==
    \/ \E l \in TlIds : TlLoadCall(l)
    \/ \E l \in TlIds : \E ok \in BOOLEAN : TlOpenDone(l, ok)
    \/ \E l \in TlIds : \E ok \in BOOLEAN : TlGetDone(l, ok)
    \/ \E l \in TlIds : \E response \in Responses : TlFetched(l, response)
    \/ \E l \in TlIds : \E ok \in BOOLEAN : TlPutDone(l, ok)

\* --------------------------------------------------- pack parsing: actions
\* ToolchainLoader.getPackage
TlGetPackage(rec, name) ==
    IF ~MapHas(rec.packageIndex, name) THEN [name |-> name, status |-> "null", data |-> <<>>]
    ELSE LET entry == MapGet(rec.packageIndex, name)
         IN  IF ~ViewFits(rec.packData, entry.offset, entry.size)
             THEN [name |-> name, status |-> "RangeError", data |-> <<>>]
             ELSE [name |-> name, status |-> "bytes",
                   data |-> View(rec.packData, entry.offset, entry.size)]

\* load() on a loader whose store holds the pack: the cached bytes are parsed
PpLoad ==
    /\ ppLoader.pc = "idle"
    /\ ppLoader' = TlParse([ppLoader EXCEPT !.fromCache = TRUE], ppPack)
    /\ UNCHANGED <<ppWritten, ppPack, ppGot, ppVfs>>
    /\ UNCHANGED <<sdkVars, nonPpVars>>

\* getPackage(name) once load() has settled
PpGetPackage(name) ==
    /\ ppLoader.pc = "done"
    /\ ppGot' = TlGetPackage(ppLoader, name)
    /\ UNCHANGED <<ppWritten, ppPack, ppLoader, ppVfs>>
    /\ UNCHANGED <<sdkVars, nonPpVars>>

\* loadAllPackagesIntoVFS(vfs) on a fresh file system once load() has settled
PpLoadAllPackages ==
    /\ ppLoader.pc = "done"
    /\ ppVfs.status = "none"
    /\ LET r == CmLoadAllPackages(NewVirtualFileSystem, ppLoader.packData,
                                  ppLoader.packageIndex, 1)
       IN  ppVfs' = [status |-> IF r.err = "" THEN "done" ELSE r.err, vfs |-> r.vfs]
    /\ UNCHANGED <<ppWritten, ppPack, ppLoader, ppGot>>
    /\ UNCHANGED <<sdkVars, nonPpVars>>

\* the loader and the SDK driver, each given the pack under test
NextPp ==
    \/ PpLoad
    \/ \E name \in PackageQueries : PpGetPackage(name)
    \/ PpLoadAllPackages
    \/ \E i \in SdkInitIds : SdkInitCall(i)
    \/ \E i \in SdkInitIds : SdkInitFetched(i, [ok |-> TRUE, body |-> ppPack])

\* ---------------------------------------- run() and output capture: actions
RECURSIVE SdkDeliver(_, _, _)
\* calling the output callback cb with a text: a capturing closure pushes the
\* text to its own array and calls the callback it saved; st carries the
\* arrays of the runs and what the user's callback received
SdkDeliver(cb, text, st) ==
    IF cb = 0 THEN [st EXCEPT !.user = Append(@, text)]
    ELSE SdkDeliver(st.run[cb].originalCallback, text,
                    [st EXCEPT !.run[cb].output = Append(@, text)])

\* the end of run(): the result object and the finally block
SdkRunReturn(r, exited, result) ==
    /\ rnRun' = [rnRun EXCEPT ![r].pc = "returned", ![r].exited = exited,
                              ![r].result = result]
    /\ rnOnOutput' = rnRun[r].originalCallback

\* GoScript.run is called: up to the await of WebAssembly.instantiate
SdkRunCall(r) ==
    /\ rnRun[r].pc = "idle"
    /\ \A q \in RunIds : q < r => rnRun[q].pc # "idle"
    /\ IF ~sdkState.initialized
       THEN /\ rnRun' = [rnRun EXCEPT ![r].pc = "threw",
                                      ![r].result.error = MsgNotInitialized]
            /\ UNCHANGED <<rnOnOutput, rnWriteSync>>
       ELSE /\ rnRun' = [rnRun EXCEPT ![r].pc = "instantiate",
                                      ![r].originalCallback = rnOnOutput]
            /\ rnOnOutput' = r
            /\ rnWriteSync' = TRUE
    /\ UNCHANGED <<rnUser, rnAddConsoleOutput, rnWrap, rnPage, rnWrites>>
    /\ UNCHANGED <<sdkVars, nonRunVars>>

\* WebAssembly.instantiate settles; on success go.run starts the program
SdkRunInstantiated(r, ok) ==
    /\ rnRun[r].pc = "instantiate"
    /\ IF ok
       THEN /\ rnRun' = [rnRun EXCEPT ![r].pc = "running"]
            /\ UNCHANGED <<rnOnOutput, sdkErrors>>
       ELSE /\ SdkRunReturn(r, -1, [success |-> FALSE, output |-> rnRun[r].output,
                                    error |-> MsgInstantiateFailed, exitCode |-> 1])
            /\ sdkErrors' = Append(sdkErrors, MsgExecutionFailedPrefix \o MsgInstantiateFailed)
    /\ UNCHANGED <<rnWriteSync, rnUser, rnAddConsoleOutput, rnWrap, rnPage, rnWrites>>
    /\ UNCHANGED <<sdkState, sdkVfs, sdkToolchain, sdkPolyfill, sdkInit, sdkCall,
                   sdkProgress, sdkFetches>>
    /\ UNCHANGED nonRunVars

\* the running program writes a text to stdout: the patched fs.writeSync
\* hands it to whatever options.onOutput is at that moment
SdkRunWrites(r, text) ==
    /\ rnRun[r].pc = "running"
    /\ rnWriteSync
    /\ rnWrites < MaxWrites
    /\ LET st == SdkDeliver(rnOnOutput, text, [run |-> rnRun, user |-> rnUser])
       IN  rnRun' = st.run /\ rnUser' = st.user
    /\ rnWrites' = rnWrites + 1
    /\ UNCHANGED <<rnOnOutput, rnWriteSync, rnAddConsoleOutput, rnWrap, rnPage>>
    /\ UNCHANGED <<sdkVars, nonRunVars>>

\* the program ends: runtime.wasmExit(code) makes go.run resolve (with no
\* value), a trap makes it reject
SdkRunExit(r, trapped, code) ==
    /\ rnRun[r].pc = "running"
    /\ IF trapped
       THEN /\ SdkRunReturn(r, -1, [success |-> FALSE, output |-> rnRun[r].output,
                                    error |-> MsgModuleTrap, exitCode |-> 1])
            /\ sdkErrors' = Append(sdkErrors, MsgExecutionFailedPrefix \o MsgModuleTrap)
       ELSE /\ SdkRunReturn(r, code, [success |-> TRUE, output |-> rnRun[r].output,
                                      error |-> <<>>, exitCode |-> 0])
            /\ UNCHANGED sdkErrors
    /\ UNCHANGED <<rnWriteSync, rnUser, rnAddConsoleOutput, rnWrap, rnPage, rnWrites>>
    /\ UNCHANGED <<sdkState, sdkVfs, sdkToolchain, sdkPolyfill, sdkInit, sdkCall,
                   sdkProgress, sdkFetches>>
    /\ UNCHANGED nonRunVars

RECURSIVE WrDeliver(_, _, _)
\* calling window.addConsoleOutput with a text: the wrapper's closure hands
\* it to options.onOutput and then to the handler it saved
WrDeliver(cb, text, st) ==
    IF cb = 0 THEN [st EXCEPT !.page = Append(@, text)]
    ELSE WrDeliver(st.wrap[cb].originalAddConsoleOutput, text,
                   [st EXCEPT !.wrap[cb].output = Append(@, text)])

\* compile() of the GoScript wrapper, on an initialized wrapper, is called:
\* up to the await of compilationManager.compile
WrCompileCall(w) ==
    /\ rnWrap[w].pc = "idle"
    /\ \A v \in WrapIds : v < w => rnWrap[v].pc # "idle"
    /\ rnWrap' = [rnWrap EXCEPT ![w].pc = "compiling",
                                ![w].originalAddConsoleOutput = rnAddConsoleOutput]
    /\ rnAddConsoleOutput' = w
    /\ UNCHANGED <<rnOnOutput, rnWriteSync, rnRun, rnUser, rnPage, rnWrites>>
    /\ UNCHANGED <<sdkVars, nonRunVars>>

\* compilationManager.compile settles: the handler is put back on the path
\* after the await; a rejection goes to the catch block, which rethrows
WrCompileDone(w, ok) ==
    /\ rnWrap[w].pc = "compiling"
    /\ IF ok
       THEN /\ rnWrap' = [rnWrap EXCEPT ![w].pc = "returned"]
            /\ rnAddConsoleOutput' = rnWrap[w].originalAddConsoleOutput
       ELSE /\ rnWrap' = [rnWrap EXCEPT ![w].pc = "threw"]
            /\ UNCHANGED rnAddConsoleOutput
    /\ UNCHANGED <<rnOnOutput, rnWriteSync, rnRun, rnUser, rnPage, rnWrites>>
    /\ UNCHANGED <<sdkVars, nonRunVars>>

\* the file system polyfill's writeSync on fd 1 or 2 calls
\* window.addConsoleOutput (the text has no trailing white space to trim)
WrConsoleOutput(text) ==
    /\ rnWrites < MaxWrites
    /\ LET st == WrDeliver(rnAddConsoleOutput, text, [wrap |-> rnWrap, page |-> rnPage])
       IN  rnWrap' = st.wrap /\ rnPage' = st.page
    /\ rnWrites' = rnWrites + 1
    /\ UNCHANGED <<rnOnOutput, rnWriteSync, rnRun, rnUser, rnAddConsoleOutput>>
    /\ UNCHANGED <<sdkVars, nonRunVars>>

\* the SDK driver with init() and run(), and the wrapper's compile()
NextRun ==
    \/ \E i \in SdkInitIds : SdkInitCall(i)
    \/ \E i \in SdkInitIds : \E response \in SdkResponses : SdkInitFetched(i, response)
    \/ \E r \in RunIds : SdkRunCall(r)
    \/ \E r \in RunIds : \E ok \in BOOLEAN : SdkRunInstantiated(r, ok)
    \/ \E r \in RunIds : SdkRunWrites(r, "hello")
    \/ \E r \in RunIds : \E trapped \in BOOLEAN : \E code \in ExitCodes :
           SdkRunExit(r, trapped, code)
    \/ \E w \in WrapIds : WrCompileCall(w)
    \/ \E w \in WrapIds : \E ok \in BOOLEAN : WrCompileDone(w, ok)
    \/ WrConsoleOutput("hello")

\* --------------------------------------------------------- reset(): actions
\* VirtualFS.clear
SdkClear_DirectoriesOnly(vfs) ==
    [vfs EXCEPT !.dirs = {Root}]

SdkClear(vfs) == [vfs EXCEPT !.files = EmptyFn, !.dirs = {Root}]

\* GoScript.reset: clear the file system and load the archives again
SdkReset ==
    /\ sdkResets < MaxResets
    /\ sdkResets' = sdkResets + 1
    /\ IF ~sdkVfs.made THEN UNCHANGED sdkVfs
       ELSE IF ~sdkToolchain.loaded THEN sdkVfs' = SdkClear(sdkVfs)
       ELSE sdkVfs' = SdkLoadPackages(SdkClear(sdkVfs), sdkToolchain.packData,
                                      sdkToolchain.packageIndex, 1).vfs
    /\ UNCHANGED <<sdkState, sdkToolchain, sdkPolyfill, sdkInit, sdkCall, sdkErrors,
                   sdkProgress, sdkFetches>>
    /\ UNCHANGED <<cmVars, tlVars, ppVars, runVars, fsVars, arVars>>

\* the SDK driver with reset()
NextReset == NextSdk \/ SdkReset

\* ----------------------------------- file system shim (FSPolyfill): actions
RECURSIVE Utf8Encode(_)
\* new TextEncoder().encode(text), for code units outside the surrogates
Utf8Encode(units) ==
    IF units = <<>> THEN <<>>
    ELSE LET u == Head(units)
         IN  (IF u < 128 THEN <<u>>
              ELSE IF u < 2048 THEN <<192 + (u \div 64), 128 + (u % 64)>>
              ELSE <<224 + (u \div 4096), 128 + ((u \div 64) % 64), 128 + (u % 64)>>)
             \o Utf8Encode(Tail(units))

RECURSIVE Utf8Decode(_)
\* new TextDecoder().decode(buf), for sequences of one and two bytes: any
\* other byte decodes to U+FFFD
Utf8Decode(bytes) ==
    IF bytes = <<>> THEN <<>>
    ELSE LET b == Head(bytes)
         IN  IF b < 128 THEN <<b>> \o Utf8Decode(Tail(bytes))
             ELSE IF b >= 194 /\ b < 224 /\ Len(bytes) >= 2 /\ bytes[2] \div 64 = 2
             THEN <<(b - 192) * 64 + (bytes[2] - 128)>>
                  \o Utf8Decode(SubSeq(bytes, 3, Len(bytes)))
             ELSE <<65533>> \o Utf8Decode(Tail(bytes))

RECURSIVE TrimEnd(_)
\* String.prototype.trimEnd
TrimEnd(text) ==
    IF text # <<>> /\ text[Len(text)] \in
           {9, 10, 11, 12, 13, 32, 160, 5760, 8232, 8233, 8239, 8287, 12288, 65279}
                 \cup 8192..8202
    THEN TrimEnd(SubSeq(text, 1, Len(text) - 1))
    ELSE text

\* VirtualFileSystem.clear
CmClear(vfs) == [vfs EXCEPT !.files = EmptyFn, !.dirs = {}]

\* self.vfs._normalize / self.vfs.normalizePath
FsNormalize(path) == IF fsImpl = "sdk" THEN SdkNormalize(path) ELSE CmNormalize(path)

\* self.vfs.writeFile
FsVfsWriteFile(vfs, path, content) ==
    IF fsImpl = "sdk" THEN SdkWriteFile(vfs, path, content)
    ELSE CmWriteFile(vfs, path, content)

\* self.vfs.readFile: the content, or the error it throws
FsVfsReadFile(vfs, path) ==
    IF FsNormalize(path) \in DOMAIN vfs.files THEN vfs.files[FsNormalize(path)]
    ELSE [t |-> "error", v |-> "File not found"]

\* open and stat: a relative path is put behind the working directory,
\* workingDirectory + (workingDirectory.endsWith('/') ? '' : '/') + path
FsResolve(cwd, path) ==
    FsNormalize(IF StartsWithSlash(path) THEN path
                ELSE IF cwd[Len(cwd)] = "" THEN SubSeq(cwd, 1, Len(cwd) - 1) \o path
                ELSE cwd \o path)

\* the text the shim hands to the output sink
FsDeliver(text) ==
    IF fsImpl = "page" /\ fsConsole THEN TrimEnd(text) ELSE text

\* the descriptor open hands out: self.nextFd++
FsAllocate_LowestFree(fds, nextFd) ==
    CHOOSE fd \in 100..nextFd : fd \notin DOMAIN fds /\ \A g \in 100..(fd - 1) : g \in DOMAIN fds

FsAllocate(fds, nextFd) == nextFd

\* file.position after write: if (position === null) file.position = pos + length
FsWritePosition_Always(file, position, pos, length) == pos + length

FsWritePosition(file, position, pos, length) ==
    IF position = Null THEN pos + length ELSE file.position

\* the descriptor table with one record's position set
FsSetPosition_SamePath(fds, fd, position) ==
    [g \in DOMAIN fds |->
        IF fds[g].path = fds[fd].path THEN [fds[g] EXCEPT !.position = position] ELSE fds[g]]

FsSetPosition(fds, fd, position) == [fds EXCEPT ![fd].position = position]

\* what close reports: callback(null)
FsCloseError_Unknown(fds, fd) == IF fd \in DOMAIN fds THEN "" ELSE "EBADF"

FsCloseError(fds, fd) == ""

\* the descriptors an operation is called with: stdout, stderr, the open
\* ones, the closed ones and one that was never opened
FsFdArgs == {1, 2, fsNextFd} \cup DOMAIN fsFds \cup fsReturned

\* what one operation leaves alone besides what it names
FsCount ==
    /\ fsOps < MaxFsOps
    /\ fsOps' = fsOps + 1
    /\ UNCHANGED <<fsImpl, fsConsole>>
    /\ UNCHANGED <<sdkVars, cmVars, tlVars, ppVars, runVars, sdkResets, arVars>>

\* the same for an operation that sets no byte of an existing array
FsKeep == FsCount /\ UNCHANGED fsPack

\* vfs.writeFile(path, text) by the driver
FsWriteFile(path, text) ==
    /\ FsKeep
    /\ fsVfs' = FsVfsWriteFile(fsVfs, path, Str(text))
    /\ fsLast' = FsResult("writeFile", "vfs", 0, path, text, Null, 0, "")
    /\ UNCHANGED <<fsFds, fsNextFd, fsNextBuf, fsCapture, fsSink, fsReturned>>

\* vfs.clear() by the driver
FsClear ==
    /\ FsKeep
    /\ fsVfs' = (IF fsImpl = "sdk" THEN SdkClear(fsVfs) ELSE CmClear(fsVfs))
    /\ fsLast' = FsResult("clear", "vfs", 0, <<>>, <<>>, Null, 0, "")
    /\ UNCHANGED <<fsFds, fsNextFd, fsNextBuf, fsCapture, fsSink, fsReturned>>

\* the shim is installed again: GoScript._setupFSPolyfill patches with the
\* FSPolyfill it has, setupCompilerFilesystem with a new one
FsPatch ==
    /\ FsKeep
    /\ fsCapture' = FALSE
    /\ IF fsImpl = "sdk" THEN UNCHANGED <<fsFds, fsNextFd, fsReturned>>
       ELSE fsFds' = EmptyFn /\ fsNextFd' = 100 /\ fsReturned' = {}
    /\ fsLast' = FsResult("patch", "shim", 0, <<>>, <<>>, Null, 0, "")
    /\ UNCHANGED <<fsVfs, fsNextBuf, fsSink>>

\* GoScript._setupOutputCapture / AppRunner.configureOutput
FsConfigureOutput ==
    /\ FsKeep
    /\ fsCapture' = TRUE
    /\ fsLast' = FsResult("configureOutput", "capture", 0, <<>>, <<>>, Null, 0, "")
    /\ UNCHANGED <<fsVfs, fsFds, fsNextFd, fsNextBuf, fsSink, fsReturned>>

\* process.chdir(path)
FsChdir(path) ==
    /\ FsKeep
    /\ fsVfs' = [fsVfs EXCEPT !.cwd = path]
    /\ fsLast' = FsResult("chdir", "shim", 0, path, <<>>, Null, 0, "")
    /\ UNCHANGED <<fsFds, fsNextFd, fsNextBuf, fsCapture, fsSink, fsReturned>>

\* fs.open(path, flags, mode, callback)
FsOpen(path, flags) ==
    LET resolved == FsResolve(fsVfs.cwd, path)
        exists == resolved \in DOMAIN fsVfs.files
        vfsContent == fsVfs.files[resolved]
        opened == IF ~exists THEN Buf(<<>>, fsNextBuf)
                  ELSE IF vfsContent.t = "string"
                       THEN Buf(Utf8Encode(vfsContent.v), fsNextBuf)
                  ELSE IF fsImpl = "sdk" THEN Buf(vfsContent.v, fsNextBuf)
                  ELSE vfsContent
        content == IF (flags \div 512) % 2 = 1 THEN Buf(<<>>, fsNextBuf + 1) ELSE opened
        fd == FsAllocate(fsFds, fsNextFd)
    IN  /\ FsKeep
        /\ IF ~exists /\ (flags \div 64) % 2 = 0
           THEN /\ fsLast' = FsResult("open", "shim", 0, path, <<>>, Null, 0, "ENOENT")
                /\ UNCHANGED <<fsFds, fsNextFd, fsNextBuf, fsReturned>>
           ELSE /\ fsFds' = FnPut(fsFds, fd,
                        [path |-> resolved, flags |-> flags, content |-> content,
                         position |-> 0])
                /\ fsNextFd' = fsNextFd + 1
                /\ fsNextBuf' = fsNextBuf + 2
                /\ fsReturned' = fsReturned \cup {fd}
                /\ fsLast' = FsResult("open", "shim", 0, path, <<>>, Null, fd, "")
        /\ UNCHANGED <<fsVfs, fsCapture, fsSink>>

\* fs.writeSync(fd, buf)
FsWriteSync(fd, buf) ==
    /\ FsKeep
    /\ fd \in FsFdArgs
    /\ IF fd \in {1, 2}
       THEN /\ fsSink' = Append(fsSink, IF fsCapture THEN Utf8Decode(buf)
                                        ELSE FsDeliver(Utf8Decode(buf)))
            /\ fsLast' = FsResult("writeSync", IF fsCapture THEN "capture" ELSE "shim",
                                  fd, <<>>, buf, Null, Len(buf), "")
            /\ UNCHANGED <<fsVfs, fsFds, fsNextBuf>>
       ELSE IF fsImpl = "page" /\ fsCapture
       THEN /\ fsLast' = FsResult("writeSync", "capture", fd, <<>>, buf, Null, Len(buf), "")
            /\ UNCHANGED <<fsVfs, fsFds, fsNextBuf, fsSink>>
       ELSE IF fd \notin DOMAIN fsFds
       THEN /\ fsLast' = FsResult("writeSync", "shim", fd, <<>>, buf, Null, 0, "EBADF")
            /\ UNCHANGED <<fsVfs, fsFds, fsNextBuf, fsSink>>
       ELSE LET file == fsFds[fd]
                newContent == Buf(file.content.v \o buf, fsNextBuf)
            IN  /\ fsFds' = [fsFds EXCEPT ![fd].content = newContent]
                /\ fsNextBuf' = fsNextBuf + 1
                /\ fsVfs' = FsVfsWriteFile(fsVfs, file.path, newContent)
                /\ fsLast' = FsResult("writeSync", "shim", fd, file.path, buf, Null,
                                      Len(buf), "")
                /\ UNCHANGED fsSink
    /\ UNCHANGED <<fsNextFd, fsCapture, fsReturned>>

\* fs.write(fd, buf, offset, length, position, callback)
FsWrite(fd, buf, offset, length, position) ==
    LET data == SubSeq(buf, offset + 1, offset + length)
    IN  /\ FsCount
        /\ fd \in FsFdArgs
        /\ offset + length <= Len(buf)
        /\ IF fsImpl = "page" /\ fsCapture
           THEN /\ fsSink' = IF fd \in {1, 2} THEN Append(fsSink, Utf8Decode(data))
                             ELSE fsSink
                /\ fsLast' = FsResult("write", "capture", fd, <<>>, data, position,
                                      IF fd \in {1, 2} THEN length ELSE 0, "")
                /\ UNCHANGED <<fsVfs, fsFds, fsNextBuf, fsPack>>
           ELSE IF fd \in {1, 2}
           THEN /\ fsSink' = Append(fsSink, FsDeliver(Utf8Decode(data)))
                /\ fsLast' = FsResult("write", "shim", fd, <<>>, data, position, length, "")
                /\ UNCHANGED <<fsVfs, fsFds, fsNextBuf, fsPack>>
           ELSE IF fd \notin DOMAIN fsFds
           THEN /\ fsLast' = FsResult("write", "shim", fd, <<>>, data, position, 0, "EBADF")
                /\ UNCHANGED <<fsVfs, fsFds, fsNextBuf, fsSink, fsPack>>
           ELSE LET file == fsFds[fd]
                    pos == IF position # Null THEN position[1] ELSE file.position
                    old == file.content.v
                    grown == pos + length > Len(old)
                    id == IF grown THEN fsNextBuf ELSE file.content.id
                    bytes == [i \in 1..(IF grown THEN pos + length ELSE Len(old)) |->
                                 IF i > pos /\ i <= pos + length THEN data[i - pos]
                                 ELSE IF i <= Len(old) THEN old[i] ELSE 0]
                    Set(content) == IF content.t = "bytes" /\ content.id = id
                                    THEN Buf(bytes, id) ELSE content
                    held == [g \in DOMAIN fsFds |->
                                [fsFds[g] EXCEPT !.content =
                                    IF g = fd THEN Buf(bytes, id) ELSE Set(@)]]
                    files == [k \in DOMAIN fsVfs.files |-> Set(fsVfs.files[k])]
                IN  /\ fsFds' = FsSetPosition(held, fd,
                                     FsWritePosition(file, position, pos, length))
                    /\ fsNextBuf' = IF grown THEN fsNextBuf + 1 ELSE fsNextBuf
                    /\ fsVfs' = FsVfsWriteFile([fsVfs EXCEPT !.files = files], file.path,
                                               Buf(bytes, id))
                    /\ fsPack' = Set(fsPack)
                    /\ fsLast' = FsResult("write", "shim", fd, file.path, data, position,
                                          length, "")
                    /\ UNCHANGED fsSink
        /\ UNCHANGED <<fsNextFd, fsCapture, fsReturned>>

\* fs.read(fd, buffer, offset, length, position, callback)
FsRead(fd, length, position) ==
    /\ FsKeep
    /\ fd \in FsFdArgs
    /\ IF fd \notin DOMAIN fsFds
       THEN /\ fsLast' = FsResult("read", "shim", fd, <<>>, <<>>, position, 0, "EBADF")
            /\ UNCHANGED fsFds
       ELSE LET file == fsFds[fd]
                pos == IF position # Null THEN position[1] ELSE file.position
                end == Min(pos + length, Len(file.content.v))
            IN  IF pos >= Len(file.content.v)
                THEN /\ fsLast' = FsResult("read", "shim", fd, file.path, <<>>, position, 0, "")
                     /\ UNCHANGED fsFds
                ELSE /\ fsFds' = IF position = Null
                                 THEN FsSetPosition(fsFds, fd, file.position + (end - pos))
                                 ELSE fsFds
                     /\ fsLast' = FsResult("read", "shim", fd, file.path,
                                           SubSeq(file.content.v, pos + 1, end), position,
                                           end - pos, "")
    /\ UNCHANGED <<fsVfs, fsNextFd, fsNextBuf, fsCapture, fsSink, fsReturned>>

\* fs.close(fd, callback)
FsClose(fd) ==
    /\ FsKeep
    /\ fd \in FsFdArgs
    /\ fsFds' = [g \in DOMAIN fsFds \ {fd} |-> fsFds[g]]
    /\ fsLast' = FsResult("close", "shim", fd, <<>>, <<>>, Null, 0, FsCloseError(fsFds, fd))
    /\ UNCHANGED <<fsVfs, fsNextFd, fsNextBuf, fsCapture, fsSink, fsReturned>>

\* what fs.stat finds at a path: "file", "directory", or "" for ENOENT
FsStatKind(vfs, path) ==
    LET resolved == FsResolve(vfs.cwd, path)
    IN  IF resolved \in DOMAIN vfs.files THEN "file"
        ELSE IF resolved \in vfs.dirs \/ resolved = Root THEN "directory"
        ELSE ""

\* fs.stat(path, callback) and fs.lstat, which calls it: ret is the size
FsStat(op, path) ==
    LET resolved == FsResolve(fsVfs.cwd, path)
        kind == FsStatKind(fsVfs, path)
    IN  /\ FsKeep
        /\ fsLast' =
             IF kind = "file"
             THEN FsResult(op, "shim", 0, path, "file", Null,
                           Len(fsVfs.files[resolved].v), "")
             ELSE IF kind = "directory"
             THEN FsResult(op, "shim", 0, path, "directory", Null, 0, "")
             ELSE FsResult(op, "shim", 0, path, "", Null, 0, "ENOENT")
        /\ UNCHANGED <<fsVfs, fsFds, fsNextFd, fsNextBuf, fsCapture, fsSink, fsReturned>>

\* self.vfs.listDir(path): the first segment, below path, of every file and
\* directory whose path starts with the normalized path and a '/'; the names
\* as a set (the result is that set, sorted)
FsListDir(vfs, path) ==
    LET normalized == FsNormalize(path)
        prefix == IF normalized[Len(normalized)] = "" THEN normalized
                  ELSE Append(normalized, "")
        n == Len(prefix)
        Parts(k) == SelectSeq(SubSeq(k, n, Len(k)), LAMBDA p : p # "")
        Under(k) == /\ Len(k) >= n
                    /\ SubSeq(k, 1, n - 1) = SubSeq(prefix, 1, n - 1)
                    /\ Parts(k) # <<>>
    IN  {Parts(k)[1] : k \in {k \in DOMAIN vfs.files \cup vfs.dirs : Under(k)}}

\* fs.readdir(path, callback)
FsReaddir(path) ==
    /\ FsKeep
    /\ fsLast' = FsResult("readdir", "shim", 0, path, FsListDir(fsVfs, path), Null, 0, "")
    /\ UNCHANGED <<fsVfs, fsFds, fsNextFd, fsNextBuf, fsCapture, fsSink, fsReturned>>

\* fs.mkdir(path, perm, callback): self.vfs.mkdir(path)
FsMkdir(path) ==
    /\ FsKeep
    /\ fsVfs' = [fsVfs EXCEPT !.dirs = @ \cup {FsNormalize(path)}]
    /\ fsLast' = FsResult("mkdir", "shim", 0, path, <<>>, Null, 0, "")
    /\ UNCHANGED <<fsFds, fsNextFd, fsNextBuf, fsCapture, fsSink, fsReturned>>

\* loadAllPackagesIntoVFS / _loadPackagesIntoVFS called again by the driver:
\* vfs.writeFile(path, new Uint8Array(packData, entry.offset, entry.size))
FsLoadPackages ==
    /\ FsKeep
    /\ fsVfs' = FsVfsWriteFile(fsVfs, PkgPath, fsPack)
    /\ fsLast' = FsResult("loadPackages", "vfs", 0, PkgPath, fsPack.v, Null, 0, "")
    /\ UNCHANGED <<fsFds, fsNextFd, fsNextBuf, fsCapture, fsSink, fsReturned>>

NextFs ==
    \/ \E path \in FsPaths \ {<<"d">>} : FsWriteFile(path, <<65, 97>>)
    \/ FsClear
    \/ FsPatch
    \/ FsConfigureOutput
    \/ \E path \in FsDirs : FsChdir(path)
    \/ \E path \in {<<"", "a", "f">>, <<"", "a", ".", "f">>, <<"f">>} : \E flags \in FsFlags :
          FsOpen(path, flags)
    \/ \E fd \in {1, 2} \cup 100..(100 + MaxFsOps) : \E buf \in FsBufs : FsWriteSync(fd, buf)
    \/ \E fd \in {1, 2} \cup 100..(100 + MaxFsOps) : \E buf \in FsBufs : \E range \in {<<0, Len(buf)>>, <<1, 1>>} :
          \E position \in {Null, <<3>>} :
             FsWrite(fd, buf, range[1], range[2], position)
    \/ \E fd \in {1, 2} \cup 100..(100 + MaxFsOps) : \E position \in {Null, <<0>>} : FsRead(fd, 2, position)
    \/ \E fd \in {1, 2} \cup 100..(100 + MaxFsOps) : FsClose(fd)
    \/ \E op \in {"stat", "lstat"} : \E path \in {<<"", "a", "f">>, <<"f">>} : FsStat(op, path)
    \/ \E path \in {<<"", "a", "b", "g">>, <<"d">>} : FsMkdir(path)
    \/ \E path \in FsDirs : FsReaddir(path)

\* the state after the standard library was loaded into a new file system,
\* the shim was installed and fs.open("/a/f", O_WRONLY|O_CREAT) was called
FsOpened(impls) ==
    /\ fsImpl \in impls
    /\ fsConsole \in (IF fsImpl = "page" THEN BOOLEAN ELSE {FALSE})
    /\ fsPack = PackView
    /\ fsVfs = FsVfsWriteFile(IF fsImpl = "sdk" THEN NewVirtualFS ELSE NewVirtualFileSystem,
                              PkgPath, PackView)
    /\ fsFds = FnPut(EmptyFn, 100,
                     [path |-> <<"", "a", "f">>, flags |-> 65, content |-> Buf(<<>>, 0),
                      position |-> 0])
    /\ fsNextFd = 101
    /\ fsNextBuf = 2
    /\ fsCapture = FALSE
    /\ fsSink = <<>>
    /\ fsReturned = {100}
    /\ fsLast = FsResult("open", "shim", 0, <<"", "a", "f">>, <<>>, Null, 100, "")
    /\ fsOps = 0

\* the operations on descriptors, on a file two descriptors share and on a
\* file of the standard library
NextFd ==
    \/ \E path \in {<<"", "a", "f">>, PkgPath} : \E flags \in FsFlags : FsOpen(path, flags)
    \/ \E fd \in 100..(100 + MaxFsOps) : \E buf \in FsBufs : FsWriteSync(fd, buf)
    \/ \E fd \in 100..(100 + MaxFsOps) : \E buf \in FsBufs : \E position \in {Null, <<0>>, <<3>>} :
          FsWrite(fd, buf, 0, Len(buf), position)
    \/ \E fd \in 100..(100 + MaxFsOps) : FsClose(fd)
    \/ FsLoadPackages

\* ----------------------------------------------------- AppRunner: actions
\* what the steps of the AppRunner leave alone
nonArVars == <<sdkVars, cmVars, tlVars, ppVars, runVars, sdkResets, fsVars>>

\* AppRunner.init, with wasm_exec.js loaded: this.go = new Go()
ArInit ==
    /\ arInits < MaxArInits
    /\ arInits' = arInits + 1
    /\ arGo' = NewGo
    /\ UNCHANGED <<arInstance, arExec, arModule>>
    /\ UNCHANGED nonArVars

\* executeConsole(wasmBinary) on an initialized AppRunner is called: up to the
\* await of WebAssembly.instantiate in loadWasmModule
ArExecuteCall(e) ==
    /\ arExec[e].pc = "idle"
    /\ \A d \in ArIds : d < e => arExec[d].pc # "idle"
    /\ arGo.made
    /\ arExec' = [arExec EXCEPT ![e].pc = "instantiate"]
    /\ UNCHANGED <<arGo, arInstance, arModule, arInits>>
    /\ UNCHANGED nonArVars

\* WebAssembly.instantiate settles: loadWasmModule stores the instance, or
\* after a rejection the mock module of loadMockModule
ArInstantiated(e, ok) ==
    /\ arExec[e].pc = "instantiate"
    /\ arInstance' = IF ok THEN e ELSE 0
    /\ arModule' = IF ok THEN [arModule EXCEPT ![e] = "loaded"] ELSE arModule
    /\ arExec' = [arExec EXCEPT ![e].pc = "loaded"]
    /\ UNCHANGED <<arGo, arInits>>
    /\ UNCHANGED nonArVars

\* runWasmApplication: go.run(this.wasmInstance) up to `await
\* this._exitPromise`. A mock module is no WebAssembly.Instance and go.run
\* throws; else exports.run runs the program until it exits or first waits
ArRun(e, exitsNow) ==
    /\ arExec[e].pc = "loaded"
    /\ IF arInstance = 0
       THEN /\ arExec' = [arExec EXCEPT ![e].pc = "threw"]
            /\ UNCHANGED <<arGo, arModule>>
       ELSE /\ arExec' = [arExec EXCEPT ![e].pc = "awaitExit",
                                        ![e].module = arInstance,
                                        ![e].freshGo = (arGo.runs = 0)]
            /\ arModule' = [arModule EXCEPT ![arInstance] =
                               IF exitsNow THEN "exited" ELSE "running"]
            /\ arGo' = [arGo EXCEPT !.runs = @ + 1,
                                    !.inst = arInstance,
                                    !.exited = exitsNow,
                                    !.exitResolved = @ \/ exitsNow]
    /\ UNCHANGED <<arInstance, arInits>>
    /\ UNCHANGED nonArVars

\* an event or a timer resumes the program (go._resume drives this._inst) and
\* it calls exit: the exited flag is set and the exit promise resolved
ArModuleExit(m) ==
    /\ arModule[m] = "running"
    /\ arGo.inst = m
    /\ arModule' = [arModule EXCEPT ![m] = "exited"]
    /\ arGo' = [arGo EXCEPT !.exited = TRUE, !.exitResolved = TRUE]
    /\ UNCHANGED <<arInstance, arExec, arInits>>
    /\ UNCHANGED nonArVars

\* go.run's await of this._exitPromise is over: runWasmApplication and
\* executeConsole return
ArRunReturn(e) ==
    /\ arExec[e].pc = "awaitExit"
    /\ arGo.exitResolved
    /\ arExec' = [arExec EXCEPT ![e].pc = "returned",
                                ![e].exitedAtReturn = (arModule[arExec[e].module] = "exited")]
    /\ UNCHANGED <<arGo, arInstance, arModule, arInits>>
    /\ UNCHANGED nonArVars

NextAr ==
    \/ ArInit
    \/ \E e \in ArIds : ArExecuteCall(e)
    \/ \E e \in ArIds : \E ok \in BOOLEAN : ArInstantiated(e, ok)
    \/ \E e \in ArIds : \E exitsNow \in BOOLEAN : ArRun(e, exitsNow)
    \/ \E m \in ArIds : ArModuleExit(m)
    \/ \E e \in ArIds : ArRunReturn(e)

\* ------------------------------------------------------ specifications
vars == <<sdkVars, cmVars, tlVars, ppVars, runVars, sdkResets, fsVars, arVars>>

Init == InitSdk /\ InitCm /\ InitTl /\ InitPp /\ InitRun /\ sdkResets = 0 /\ InitFs /\ InitAr

\* the SDK driver
Next == NextSdk

Spec == Init /\ [][Next]_vars

\* the SDK driver when every started WebAssembly.instantiate settles and every
\* started compiler or linker module exits or throws
SdkFairness ==
    \A c \in SdkIds :
        /\ WF_vars(\E ok \in BOOLEAN : SdkInstantiated(c, ok))
        /\ WF_vars(\E threw \in BOOLEAN : SdkCompilerExit(c, threw))
        /\ WF_vars(\E threw \in BOOLEAN : SdkLinkerExit(c, threw))

SpecLive == Init /\ [][Next]_vars /\ SdkFairness

\* the pipeline driver with its artifact cache
SpecCM == Init /\ [][NextCm]_vars

\* the toolchain loader with its pack store
SpecTL == Init /\ [][NextTl]_vars

\* init() called more than once on one SDK driver
InitRace ==
    SdkStart(1..MaxInitCalls) /\ InitCm /\ InitTl /\ InitPp /\ InitRun /\ sdkResets = 0 /\ InitFs /\ InitAr

NextInit ==
    \/ \E i \in 1..MaxInitCalls : SdkInitCall(i)
    \/ \E i \in 1..MaxInitCalls : \E response \in Responses : SdkInitFetched(i, response)

SpecInit == InitRace /\ [][NextInit]_vars

\* pack parsing, over the packs of PackInputs
InitPP == InitSdk /\ InitCm /\ InitTl /\ InitPpDrawn /\ InitRun /\ sdkResets = 0 /\ InitFs /\ InitAr

SpecPP == InitPP /\ [][NextPp]_vars

\* run() on the SDK driver and compile() on the wrapper, with their output capture
SpecRun == Init /\ [][NextRun]_vars

\* the SDK driver with reset()
SpecReset == Init /\ [][NextReset]_vars

\* the file system and its shim, in both implementations
InitFS ==
    InitSdk /\ InitCm /\ InitTl /\ InitPp /\ InitRun /\ sdkResets = 0 /\ InitAr
    /\ FsStart({"sdk", "page"})

SpecFS == InitFS /\ [][NextFs]_vars

\* descriptors sharing a file, and the standard library files, in both
\* implementations
InitFD ==
    InitSdk /\ InitCm /\ InitTl /\ InitPp /\ InitRun /\ sdkResets = 0 /\ InitAr
    /\ FsOpened({"sdk", "page"})

SpecFD == InitFD /\ [][NextFd]_vars

\* executions on one AppRunner
SpecAR == Init /\ [][NextAr]_vars

\* ------------------------------------------------- claims on the AppRunner
\* C38: every program execution uses a Go object of its own, on which run()
\* has not been called before, and returns only after the module of that
\* execution has exited; the first execution on an AppRunner and every later
\* one.
C38_FreshRunnerAwaitsExit ==
    \A e \in ArIds :
        /\ arExec[e].pc \in {"awaitExit", "returned"} => arExec[e].freshGo
        /\ arExec[e].pc = "returned" => arExec[e].exitedAtReturn

\* ------------------------------------------------- pipeline driver: claims
\* the stage events of a compile() that runs all seven stages
AllStageEvents ==
    [i \in 1..(2 * StageCount) |->
        <<(i + 1) \div 2, IF i % 2 = 1 THEN "active" ELSE "complete">>]

IsPrefix(s, t) == Len(s) <= Len(t) /\ s = SubSeq(t, 1, Len(s))

\* number of stages the events report as started
ActiveCount(events) == Len(SelectSeq(events, LAMBDA e : e[2] = "active"))

\* the path-to-content mapping of a sourceFiles object
Mapping(sourceFiles) == {sourceFiles[i] : i \in 1..Len(sourceFiles)}

\* C2: at most one compile() of the pipeline driver is in progress at any time,
\* and a compile() entered while the status is 'compiling' is rejected with
\* none of its stages run.
C2_AtMostOneCompiling ==
    /\ Cardinality({c \in CmIds : CmInFlight(c)}) <= 1
    /\ \A c \in CmIds :
          (cmCall[c].pc # "idle" /\ cmCall[c].statusAtEntry = "compiling")
          => /\ cmCall[c].outcome = "rejected"
             /\ cmCall[c].events = <<>>

\* C3: once cancel() has set the status to 'cancelled', no compile() that is
\* under way starts a further stage, and the status stays 'cancelled' until a
\* new compile() is entered.
C3_CancelStopsStages ==
    [][cmStatus = "cancelled"
       => /\ \A c \in CmIds :
                cmCall[c].pc # "idle"
                => ActiveCount(cmCall'[c].events) = ActiveCount(cmCall[c].events)
          /\ \/ cmStatus' = "cancelled"
             \/ \E c \in CmIds : cmCall[c].pc = "idle" /\ cmCall'[c].pc # "idle"]_vars

\* C6: every compile() that reports success, of either driver and also when
\* served from the cache, returns bytes that start 00 61 73 6D 01 00 00 00.
C6_SuccessHasWasmHeader ==
    /\ \A c \in CmIds :
          cmCall[c].outcome = "resolved"
          => /\ Len(cmCall[c].result) >= 8
             /\ SubSeq(cmCall[c].result, 1, 8) = WasmHeader
    /\ \A c \in SdkIds :
          sdkCall[c].outcome = "success"
          => /\ Len(sdkCall[c].wasm) >= 8
             /\ SubSeq(sdkCall[c].wasm, 1, 8) = WasmHeader

\* C7: when compile() has resolved and is then called again with the same
\* path-to-content mapping (the keys in any order), each call made with no
\* other compile() under way, and the cache read of the second call does not
\* fail, the second call resolves with the bytes the first returned, served
\* from the cache: its events end with stage 2 complete, its progress is 100,
\* onComplete is called, and it instantiates neither compiler nor linker.
C7_SecondCompileFromCache ==
    \A c \in CmIds \ {1} :
        (/\ cmCall[c].pc = "done"
         /\ ~cmCall[c].storeFailed
         /\ cmCall[c].aloneAtEntry
         /\ cmCall[c - 1].aloneAtEntry
         /\ cmCall[c - 1].outcome = "resolved"
         /\ Mapping(cmCall[c].inputs) = Mapping(cmCall[c - 1].inputs))
        => /\ cmCall[c].outcome = "resolved"
           /\ cmCall[c].result = cmCall[c - 1].result
           /\ cmCall[c].fromCache
           /\ cmCall[c].events = SubSeq(AllStageEvents, 1, 4)
           /\ cmCall[c].progress = 100
           /\ cmCall[c].completed
           /\ cmCall[c].insts = {}

\* a second compile() of the same mapping, written in the other key order,
\* has finished after a first one that ran the real compiler and linker
C7_Witness ==
    \E c \in CmIds \ {1} :
        /\ cmCall[c].pc = "done"
        /\ ~cmCall[c].storeFailed
        /\ cmCall[c].aloneAtEntry
        /\ cmCall[c - 1].aloneAtEntry
        /\ cmCall[c - 1].outcome = "resolved"
        /\ cmCall[c - 1].insts = {"compiler", "linker"}
        /\ Mapping(cmCall[c].inputs) = Mapping(cmCall[c - 1].inputs)
        /\ cmCall[c].inputs # cmCall[c - 1].inputs

\* C8: a failed get or put on the artifact cache never makes compile() fail.
C8_StoreFailureNotFatal ==
    \A c \in CmIds : cmCall[c].storeFailed => cmCall[c].outcome # "rejected"

\* C10: the stage events of one compile() come in increasing stage order, each
\* stage active and then complete, with no stage skipped or repeated: they are
\* always an initial part of 1 active, 1 complete, ..., 7 active, 7 complete.
C10_StagesInOrder ==
    \A c \in CmIds : IsPrefix(cmCall[c].events, AllStageEvents)

\* a compile() that has reported all seven stages
C10_Witness ==
    \E c \in CmIds :
        /\ cmCall[c].outcome = "resolved"
        /\ Len(cmCall[c].events) = 2 * StageCount

\* C20: stage 1 only ensures that the toolchain is loaded: a compile() entered
\* on a driver whose toolchain is already loaded (compilerLoaded set by an
\* earlier stage 1) starts no toolchain load, so that the pack is loaded once
\* over any sequence of compiles.
C20_LoadedToolchainNotReloaded ==
    [][\A c \in CmIds :
          (cmCall[c].pc = "idle" /\ cmCall'[c].pc # "idle" /\ cmToolchain.compilerLoaded)
          => cmLoads' = cmLoads
      ]_vars

\* C30: every record of the artifact cache holds a binary that a compiler run
\* produced from the inputs its key was computed from: no record holds a
\* stand-in binary, and a compile() answered from the cache gets a binary that
\* a compile() of the same source files (the same names with the same
\* contents) stored.
C30_CacheHoldsOwnBinary ==
    LET Props(sourceFiles) == {sourceFiles[i] : i \in DOMAIN sourceFiles}
        Stored(d) == /\ cmCall[d].pc \in {"prepare", "done"}
                     /\ ~cmCall[d].fromCache
                     /\ ~cmCall[d].storeFailed
    IN  /\ \A key \in DOMAIN cmStore : cmStore[key].wasmBinary \notin MockOutputs
        /\ \A c \in CmIds :
              (cmCall[c].fromCache /\ cmCall[c].outcome = "resolved")
                 => \E d \in CmIds \ {c} :
                       /\ Stored(d)
                       /\ cmCall[d].wasm = cmCall[c].result
                       /\ Props(cmCall[d].inputs) = Props(cmCall[c].inputs)

\* C31: a binary is put in the artifact cache only after it has passed the
\* check of its WebAssembly header: every record of the cache holds a binary
\* that validateWasmBinary accepts, and so does every binary that a compile()
\* answered from the cache returns.
C31_CacheHoldsValidBinary ==
    /\ \A key \in DOMAIN cmStore : ValidateWasmBinary(cmStore[key].wasmBinary)
    /\ \A c \in CmIds :
          (cmCall[c].fromCache /\ cmCall[c].outcome = "resolved")
             => ValidateWasmBinary(cmCall[c].result)

\* C33: when the real compiler or linker run of a compile() of the pipeline
\* driver has failed (runGoCompiler was started and the call went on with a
\* stand-in binary instead of the linker's output), the call does not report
\* success and its binary is not put in the artifact cache.
C33_RealFailureIsError ==
    \A c \in CmIds :
        (cmCall[c].insts # {} /\ cmCall[c].wasm \in MockOutputs)
            => /\ cmCall[c].outcome # "resolved"
               /\ cmCall[c].pc # "prepare"

\* ------------------------------------------- claims on shared descriptors
\* a write or writeSync that the shim did on an open file descriptor
FlushedWrite(r) ==
    /\ r.op \in {"write", "writeSync"}
    /\ r.by = "shim"
    /\ r.err = ""
    /\ r.fd \notin {1, 2}

\* C36: descriptors open on the same path do not overwrite each other's data
\* with a stale copy: when a write through one descriptor has been flushed and
\* the next operation is a write through another descriptor on the same path,
\* the file does not get shorter and keeps every byte outside the range the
\* second write covers.
C36_StaleDescriptorKeepsData ==
    [][(/\ FlushedWrite(fsLast)
        /\ FlushedWrite(fsLast')
        /\ fsOps' = fsOps + 1
        /\ fsLast'.fd # fsLast.fd
        /\ fsLast'.path = fsLast.path)
       => LET old == fsVfs.files[fsLast.path].v
              new == fsVfs'.files[fsLast.path].v
              file == fsFds[fsLast'.fd]
              pos == IF fsLast'.op = "writeSync" THEN Len(file.content.v)
                     ELSE IF fsLast'.pos # Null THEN fsLast'.pos[1]
                     ELSE file.position
              length == Len(fsLast'.data)
          IN  /\ Len(new) >= Len(old)
              /\ \A i \in 1..Len(old) :
                    (i <= pos \/ i > pos + length) => new[i] = old[i]
      ]_vars

\* C39: operations of the shim never modify the loaded pack: after any
\* sequence of open, write and writeSync on a file of the standard library,
\* the archive inside the pack (what getPackage returns) has the bytes that
\* were parsed from the pack, and loading the library into the file system
\* again writes those bytes.
C39_PackUnmodified ==
    /\ fsPack.v = PackView.v
    /\ fsLast.op = "loadPackages" => fsVfs.files[PkgPath].v = PackView.v

\* ----------------------------------------- claims: file system and its shim
\* the one name of a file: '.' and empty segments dropped, '..' resolved, a
\* leading '/' put in front
Canonical(path) ==
    LET kept == SelectSeq(path, LAMBDA p : p # "" /\ p # ".")
        resolved == ResolveParts(kept, <<>>)
    IN  IF resolved = <<>> THEN Root ELSE <<"">> \o resolved

\* C21: in each file system, a file written under one path is read back under
\* every path that names the same file once '.', '..', repeated separators and
\* a missing leading '/' are resolved, and the file store never holds two
\* distinct keys for one file.
C21_OneKeyPerFile ==
    /\ fsLast.op = "writeFile"
         => \A p2 \in FsPaths :
               Canonical(p2) = Canonical(fsLast.path)
                  => FsVfsReadFile(fsVfs, p2) = Str(fsLast.data)
    /\ \A k1, k2 \in DOMAIN fsVfs.files : Canonical(k1) = Canonical(k2) => k1 = k2

\* C22: every directory above a stored file, from its parent up to and
\* including the root '/', is in the file system's directory set.
C22_AncestorsPresent ==
    \A k \in DOMAIN fsVfs.files :
       \A n \in 1..(Len(k) - 1) : JoinOrRoot(SubSeq(k, 1, n)) \in fsVfs.dirs

\* C23: a write through an open file descriptor is in the file system when the
\* call returns: after a writeSync or write that reported success on an open
\* descriptor, with or without output capture configured, readFile on the
\* descriptor's path gives the descriptor's content, with the written bytes in it.
C23_WriteFlushed ==
    (fsLast.op \in {"write", "writeSync"} /\ fsLast.fd \in DOMAIN fsFds /\ fsLast.err = "")
       => LET file == fsFds[fsLast.fd]
              read == FsVfsReadFile(fsVfs, file.path)
              data == fsLast.data
              pos == IF fsLast.op = "writeSync" THEN Len(read.v) - Len(data)
                     ELSE IF fsLast.pos # Null THEN fsLast.pos[1]
                     ELSE file.position - Len(data)
          IN  /\ read.t = "bytes"
              /\ read.v = file.content.v
              /\ pos >= 0 /\ pos + Len(data) <= Len(read.v)
              /\ SubSeq(read.v, pos + 1, pos + Len(data)) = data

\* C24: writeSync on descriptor 1 or 2 hands exactly the decoded bytes to the
\* output sink ("hello\n" arrives as "hello\n"), returns the buffer's byte
\* length, and leaves the file system and the descriptor table as they were.
C24_StdoutDelivered ==
    [][(fsOps' = fsOps + 1 /\ fsLast'.op = "writeSync" /\ fsLast'.fd \in {1, 2})
          => /\ fsSink' = Append(fsSink, Utf8Decode(fsLast'.data))
             /\ fsLast'.ret = Len(fsLast'.data)
             /\ fsVfs' = fsVfs
             /\ fsFds' = fsFds
      ]_vars

\* C25: the shim's write on an open file descriptor puts buf[off..off+len) at
\* position p (the given position, else the descriptor's own), extends the
\* file to p+len with zero bytes in any gap, keeps every other byte, moves the
\* descriptor's position to p+len only when no position was given, reports
\* len, and leaves the content in the file system.
C25_PositionalWrite ==
    [][(/\ fsOps' = fsOps + 1
        /\ fsLast'.op = "write" /\ fsLast'.by = "shim" /\ fsLast'.err = ""
        /\ fsLast'.fd \in DOMAIN fsFds)
          => LET fd == fsLast'.fd
                 old == fsFds[fd].content.v
                 new == fsFds'[fd].content.v
                 data == fsLast'.data
                 len == Len(data)
                 p == IF fsLast'.pos # Null THEN fsLast'.pos[1] ELSE fsFds[fd].position
             IN  /\ Len(new) = (IF p + len > Len(old) THEN p + len ELSE Len(old))
                 /\ \A i \in 1..Len(new) :
                       new[i] = IF i > p /\ i <= p + len THEN data[i - p]
                                ELSE IF i <= Len(old) THEN old[i] ELSE 0
                 /\ fsFds'[fd].position =
                       (IF fsLast'.pos = Null THEN p + len ELSE fsFds[fd].position)
                 /\ fsLast'.ret = len
                 /\ FsVfsReadFile(fsVfs', fsFds[fd].path).t = "bytes"
                 /\ FsVfsReadFile(fsVfs', fsFds[fd].path).v = new
      ]_vars

\* a write at position 3 of a shorter file: the gap holds zero bytes, the
\* descriptor's position has not moved, and the file system has the content
C25_Witness ==
    /\ fsLast.op = "write" /\ fsLast.by = "shim" /\ fsLast.err = ""
    /\ fsLast.fd \in DOMAIN fsFds
    /\ fsLast.pos = <<3>>
    /\ LET file == fsFds[fsLast.fd]
       IN  /\ Len(file.content.v) = 3 + Len(fsLast.data)
           /\ file.content.v[3] = 0
           /\ file.position = 0
           /\ FsVfsReadFile(fsVfs, file.path).v = file.content.v

\* C26: every descriptor an FSPolyfill's open returns is an integer of at least
\* 100 that it has not returned before, also after a close, so 0, 1 and 2 are
\* never handed out and no two open records share a number.
C26_FreshDescriptors ==
    [][(fsOps' = fsOps + 1 /\ fsLast'.op = "open" /\ fsLast'.err = "")
          => /\ fsLast'.ret >= 100
             /\ fsLast'.ret \notin fsReturned
             /\ fsLast'.ret \notin DOMAIN fsFds
             /\ DOMAIN fsFds' = DOMAIN fsFds \cup {fsLast'.ret}
             /\ \A g \in DOMAIN fsFds : fsFds'[g] = fsFds[g]
      ]_vars

\* a descriptor was opened and closed, and the next open returned another number
C26_Witness ==
    /\ fsLast.op = "open" /\ fsLast.err = ""
    /\ fsLast.ret = 101
    /\ 100 \in fsReturned \ DOMAIN fsFds

\* C27: descriptors opened on one path are distinct and keep positions of
\* their own: opening a path that is already open gives a new descriptor at
\* position 0, and an open, read, write or writeSync through one descriptor
\* leaves the position of every other descriptor as it was.
C27_IndependentPositions ==
    [][(fsOps' = fsOps + 1 /\ fsLast'.op \in {"open", "read", "write", "writeSync"})
          => /\ \A g \in DOMAIN fsFds \ {fsLast'.fd} :
                   g \in DOMAIN fsFds' /\ fsFds'[g].position = fsFds[g].position
             /\ (fsLast'.op = "open" /\ fsLast'.err = "")
                   => /\ fsLast'.ret \notin DOMAIN fsFds
                      /\ fsFds'[fsLast'.ret].position = 0
      ]_vars

\* two descriptors are open on one path, and a write through one of them has
\* moved its position while the other is still at 0
C27_Witness ==
    \E f, g \in DOMAIN fsFds :
       /\ f # g
       /\ fsFds[f].path = fsFds[g].path
       /\ fsLast.op = "write" /\ fsLast.fd = f /\ fsLast.err = ""
       /\ fsFds[f].position > 0
       /\ fsFds[g].position = 0

\* C28: close reports success whether or not the descriptor is open, removes
\* that descriptor's record and no other, and leaves the file system as it
\* was, so what was flushed through the descriptor can still be read.
C28_CloseKeepsFiles ==
    [][(fsOps' = fsOps + 1 /\ fsLast'.op = "close")
          => /\ fsLast'.err = ""
             /\ fsVfs' = fsVfs
             /\ DOMAIN fsFds' = DOMAIN fsFds \ {fsLast'.fd}
             /\ \A g \in DOMAIN fsFds' : fsFds'[g] = fsFds[g]
      ]_vars

\* a descriptor was written through and then closed, and the bytes it flushed
\* are in the file system
C28_Witness ==
    /\ fsLast.op = "close"
    /\ fsLast.fd \in fsReturned \ DOMAIN fsFds
    /\ \E k \in DOMAIN fsVfs.files :
          fsVfs.files[k].t = "bytes" /\ fsVfs.files[k].v \in FsBufs

\* C29: every shim operation taking a path resolves a relative path against
\* the working directory: after open, stat, lstat or mkdir of a relative path
\* p with working directory d, the entry opened, reported or made is the one
\* named d/p.
C29_RelativeToWorkingDirectory ==
    (fsLast.op \in {"open", "stat", "lstat", "mkdir"} /\ ~StartsWithSlash(fsLast.path))
       => LET named == FsNormalize(fsVfs.cwd \o fsLast.path)
          IN  /\ fsLast.op = "mkdir" => named \in fsVfs.dirs
              /\ (fsLast.op = "open" /\ fsLast.err = "") => fsFds[fsLast.ret].path = named
              /\ fsLast.op \in {"stat", "lstat"}
                    => /\ fsLast.data = "file" <=> named \in DOMAIN fsVfs.files
                       /\ fsLast.err = "ENOENT"
                             <=> (named \notin DOMAIN fsVfs.files /\ named \notin fsVfs.dirs
                                  /\ named # Root)

\* C37: open applies its create and truncate effects to the file system at
\* open time: right after a successful open(path, flags) the path is a file
\* there, and with O_TRUNC in flags that file is empty.
C37_OpenCreatesAndTruncates ==
    (fsLast.op = "open" /\ fsLast.err = "")
        => LET file == fsFds[fsLast.ret]
           IN  /\ file.path \in DOMAIN fsVfs.files
               /\ (file.flags \div 512) % 2 = 1 => fsVfs.files[file.path].v = <<>>

\* C40: directory listing and stat agree: for every name that readdir of a
\* directory returns, stat of that name inside the directory succeeds and
\* reports a file or a directory.
C40_ListedNamesHaveStat ==
    (fsLast.op = "readdir" /\ fsLast.err = "")
        => \A name \in fsLast.data :
              LET dir == fsLast.path
                  joined == IF dir[Len(dir)] = ""
                            THEN SubSeq(dir, 1, Len(dir) - 1) \o <<name>>
                            ELSE Append(dir, name)
              IN  FsStatKind(fsVfs, joined) \in {"file", "directory"}

\* ---------------------------------------------------- pack parsing: claims
\* the pack under test has a byte of its magic altered, or a version other
\* than 2 in the four bytes that follow
BadHeader ==
    \/ Len(ppPack) >= 8 /\ \E i \in 1..8 : ppPack[i] # Magic[i]
    \/ Len(ppPack) >= 12 /\ GetUint(ppPack, 8, 4) # 2

\* C12: the parse checks that every package's (absoluteOffset, size) lies
\* inside the pack, so that on a loader that is loaded every index entry is a
\* range of the pack and neither getPackage nor loadAllPackagesIntoVFS is
\* asked for bytes outside it.
C12_IndexedPackagesInsidePack ==
    ppLoader.loaded
    => /\ \A i \in 1..Len(ppLoader.packageIndex) :
              ppLoader.packageIndex[i].offset + ppLoader.packageIndex[i].size
                  <= Len(ppLoader.packData)
       /\ ppGot.status # "RangeError"
       /\ ppVfs.status # "RangeError"

\* C13: a pack with an altered magic byte or a version other than 2 is
\* rejected by the parse with the format error of that check, the loader is
\* left not loaded with none of its fields set, and the SDK driver's init()
\* throws that error and stays uninitialized without a toolchain.
C13_BadHeaderRejected ==
    BadHeader
    => /\ ppLoader.pc = "done"
          => /\ ppLoader.outcome = "rejected"
             /\ ppLoader.error \in {"BadMagic", "BadVersion"}
             /\ ~ppLoader.loaded
             /\ ppLoader.compilerWasm = <<>> /\ ppLoader.linkerWasm = <<>>
             /\ ppLoader.packageNames = <<>> /\ ppLoader.packageIndex = <<>>
       /\ \A i \in SdkInitIds :
             sdkInit[i] \notin {"idle", "fetch"}
             => /\ sdkInit[i] = "threw"
                /\ ~sdkState.initialized
                /\ sdkToolchain = NoToolchain
                /\ sdkErrors # <<>>
                /\ sdkErrors[Len(sdkErrors)] \in
                       {MsgInitFailedPrefix \o MsgBadPackFormat,
                        MsgInitFailedPrefix \o MsgBadPackVersion
                            \o Decimal(GetUint(ppPack, 8, 4))}

\* a pack whose first byte alone differs from the magic was rejected by the
\* loader and by the SDK driver
C13_Witness ==
    /\ Len(ppPack) = Len(GoodPack)
    /\ ppPack[1] # Magic[1]
    /\ SubSeq(ppPack, 2, Len(ppPack)) = SubSeq(GoodPack, 2, Len(GoodPack))
    /\ ppLoader.pc = "done" /\ ppLoader.error = "BadMagic"
    /\ sdkInit[1] = "threw"

RECURSIVE DataBefore(_, _)
\* the bytes of the archives before the i-th in the data region
DataBefore(pkgs, i) == IF i <= 1 THEN 0 ELSE DataBefore(pkgs, i - 1) + Len(pkgs[i - 1].data)

\* C14: for a pack the writer made, the parse gives back the compiler and the
\* linker bytes it was given, and getPackage(n) returns, for every archive n,
\* exactly the archive's bytes, which are the dataSize bytes of the pack from
\* packageDataStart + dataOffset on; a name not in the index gives null.
C14_PackRoundTrip ==
    ppWritten \in WriterInputs
    => /\ ppLoader.pc = "done"
          => /\ ppLoader.loaded
             /\ ppLoader.compilerWasm = ppWritten.compilerBytes
             /\ ppLoader.linkerWasm = ppWritten.linkerBytes
             /\ \A i \in 1..Len(ppWritten.pkgs) :
                   LET got == TlGetPackage(ppLoader, ppWritten.pkgs[i].name)
                       start == ppLoader.packageDataStart + DataBefore(ppWritten.pkgs, i)
                   IN  /\ got.status = "bytes"
                       /\ got.data = ppWritten.pkgs[i].data
                       /\ got.data = SubSeq(ppPack, start + 1, start + Len(got.data))
       /\ ppGot.status # "none"
          => IF \E i \in 1..Len(ppWritten.pkgs) : ppWritten.pkgs[i].name = ppGot.name
             THEN /\ ppGot.status = "bytes"
                  /\ \E i \in 1..Len(ppWritten.pkgs) :
                        /\ ppWritten.pkgs[i].name = ppGot.name
                        /\ ppWritten.pkgs[i].data = ppGot.data
             ELSE ppGot.status = "null"
       /\ \A i \in SdkInitIds :
             sdkInit[i] = "returned"
             => /\ sdkToolchain.compilerWasm = ppWritten.compilerBytes
                /\ sdkToolchain.linkerWasm = ppWritten.linkerBytes

\* getPackage("os") returned the four bytes of the second archive of a pack
\* written with a compiler, a linker and two archives
C14_Witness ==
    /\ ppWritten \in WriterInputs
    /\ ppWritten.compilerBytes = CompilerBytes
    /\ Len(ppWritten.pkgs) = 2
    /\ ppGot.status = "bytes" /\ ppGot.name = NameOs /\ ppGot.data = <<33, 60, 2, 2>>
    /\ ppVfs.status = "done"

\* C15: the pack of magic, version 2, zero-length compiler, linker and
\* package-name sections and package count 0 parses: once load() has settled
\* the loader is loaded with no package names and zero-length compiler bytes.
C15_EmptyPackParses ==
    (ppPack \in {EmptyPack, EmptyWrittenPack} /\ ppLoader.pc = "done")
    => /\ ppLoader.loaded
       /\ ppLoader.packageNames = <<>>
       /\ Len(ppLoader.compilerWasm) = 0

\* ------------------------------------------------------ SDK driver: claims
\* C1: a compile() call made while an earlier compile() on the same driver has
\* not finished is rejected with 'Compilation already in progress', and the
\* rejected call changes neither the VFS nor the compiling flag (still set).
C1_BusyRejected ==
    [][\A c \in SdkIds :
          (/\ sdkCall[c].pc = "idle"
           /\ sdkCall'[c].pc # "idle"
           /\ \E d \in SdkIds : SdkInFlight(d))
          => /\ sdkCall'[c].outcome = "rejected"
             /\ sdkCall'[c].error = MsgBusy
             /\ sdkVfs' = sdkVfs
             /\ sdkState'.compiling
             /\ \A d \in SdkIds \ {c} : sdkCall'[d] = sdkCall[d]]_vars

\* a call was rejected as Busy and the compile it collided with is still running
C1_Witness ==
    \E c, d \in SdkIds :
        /\ sdkCall[c].outcome = "rejected"
        /\ sdkCall[c].error = MsgBusy
        /\ sdkCall[c].busyAtEntry
        /\ SdkInFlight(d)

\* C4: when the compiler module has finished and the object file is absent
\* from the VFS, compile() resolves with success:false and an error containing
\* "Compile", and the linker module is never instantiated for that call.
C4_NoObjectIsCompileError ==
    \A c \in SdkIds :
        sdkCall[c].objAtExit = "absent"
        => /\ sdkCall[c].pc = "done"
           /\ sdkCall[c].outcome = "failure"
           /\ IsInfix(TokenCompile, sdkCall[c].error)
           /\ "linker" \notin sdkCall[c].insts
           /\ sdkCall[c].wasm = <<>>

\* a compiler run that exited without leaving /tmp/build/main.o
C4_Witness ==
    \E c \in SdkIds :
        /\ sdkCall[c].objAtExit = "absent"
        /\ "compiler" \in sdkCall[c].insts

\* C5: a failed compile() resolves with success:false and a non-empty error,
\* reports it through onError, leaves the compiling flag clear, and the next
\* compile() is accepted instead of being rejected as Busy.
C5_FailureDoesNotLatch ==
    /\ \A c \in SdkIds :
          sdkCall[c].outcome = "failure"
          => /\ sdkCall[c].error # <<>>
             /\ \E i \in 1..Len(sdkErrors) :
                   sdkErrors[i] = MsgCompilationFailedPrefix \o sdkCall[c].error
    /\ (\A c \in SdkIds : ~SdkInFlight(c)) => ~sdkState.compiling
    /\ \A c \in SdkIds :
          (sdkCall[c].afterFailure /\ sdkCall[c].pc # "idle")
          => sdkCall[c].outcome # "rejected"

\* a compile() entered right after a failed one, and accepted
C5_Witness ==
    \E c \in SdkIds :
        /\ sdkCall[c].afterFailure
        /\ sdkCall[c].pc # "idle"
        /\ sdkCall[c].outcome # "rejected"
        /\ "compiler" \in sdkCall[c].insts


\* C16: init() is idempotent: a call made while an earlier init() is still
\* loading, or after one has completed, returns without fetching the pack and
\* without replacing the file system, so that the pack is fetched and parsed
\* at most once.
C16_InitIdempotent ==
    [][\A i \in DOMAIN sdkInit :
          (/\ sdkInit[i] = "idle" /\ sdkInit'[i] # "idle"
           /\ \E j \in DOMAIN sdkInit : sdkInit[j] \in {"fetch", "returned"})
          => /\ sdkInit'[i] = "returned"
             /\ sdkFetches' = sdkFetches
             /\ sdkVfs' = sdkVfs
      ]_vars

\* C17: the output callback an invocation installs is put back when the
\* invocation ends: whenever no run() on the SDK driver and no compile() on
\* the wrapper is under way, options.onOutput and window.addConsoleOutput are
\* the callbacks that were in place before any call, and nothing has reached
\* the capture of a run() after it returned.
C17_CaptureRestored ==
    (/\ \A r \in RunIds : rnRun[r].pc \in {"idle", "returned", "threw"}
     /\ \A w \in WrapIds : rnWrap[w].pc \in {"idle", "returned", "threw"})
    => /\ rnOnOutput = 0
       /\ rnAddConsoleOutput = 0
       /\ \A r \in RunIds :
             rnRun[r].pc = "returned" => rnRun[r].output = rnRun[r].result.output

\* C18: run() reports the program's exit code: the exitCode of the result of
\* a run() whose program ended by calling exit is the code it passed.
C18_ExitCodeReported ==
    \A r \in RunIds :
        (rnRun[r].pc = "returned" /\ rnRun[r].exited >= 0)
        => rnRun[r].result.exitCode = rnRun[r].exited

\* the archive files of the loaded toolchain, as paths
ArchivePaths ==
    {<<"", "pkg", "js_wasm", ArchiveName(DecodeName(sdkToolchain.packageIndex[i].name))>> :
        i \in 1..Len(sdkToolchain.packageIndex)}

\* C19: reset() on an initialized driver clears the file system and keeps the
\* toolchain: right after it the files are exactly /pkg/js_wasm/<name>.a for
\* every indexed package, each holding its archive's bytes, the root directory
\* exists, and the driver is as initialized as before, with the same
\* toolchain; a compile() entered afterwards is not refused for want of init().
C19_ResetKeepsToolchain ==
    [][/\ (sdkResets' # sdkResets /\ sdkState.initialized)
          => /\ DOMAIN sdkVfs'.files = ArchivePaths
             /\ \A i \in 1..Len(sdkToolchain.packageIndex) :
                   LET e == sdkToolchain.packageIndex[i]
                   IN  sdkVfs'.files[<<"", "pkg", "js_wasm", ArchiveName(DecodeName(e.name))>>]
                           = Bin(View(sdkToolchain.packData, e.offset, e.size))
             /\ Root \in sdkVfs'.dirs
             /\ sdkState' = sdkState
             /\ sdkToolchain' = sdkToolchain
       /\ \A c \in SdkIds :
             (sdkCall[c].pc = "idle" /\ sdkCall'[c].pc # "idle"
              /\ sdkResets > 0 /\ sdkState.initialized)
             => sdkCall'[c].error # MsgNotInitialized
      ]_vars

\* a compile() succeeded, leaving its files, reset() was called, and the file
\* system now holds the two archives and nothing else
C19_Witness ==
    /\ sdkResets = 1
    /\ sdkState.initialized
    /\ sdkCall[1].outcome = "success"
    /\ Cardinality(DOMAIN sdkVfs.files) = 2
    /\ DOMAIN sdkVfs.files = ArchivePaths
    /\ <<"", "tmp", "build">> \notin sdkVfs.dirs

\* C32: each compile() works in a fresh working area: while a compile() of the
\* SDK driver is starting its compiler, the object file and the output binary
\* it will check for are not in the file system (none is left from an earlier
\* compile() on the same driver).
C32_FreshWorkingArea ==
    \A c \in SdkIds :
        sdkCall[c].pc = "compInst"
            => /\ ~SdkExists(sdkVfs, ObjPath)
               /\ ~SdkExists(sdkVfs, WasmPath)

\* C35: every compile() the SDK driver has accepted eventually finishes and
\* leaves the in-progress flag clear, provided every started instantiation
\* settles and every started compiler or linker module exits or throws.
C35_CompileFinishes ==
    \A c \in SdkIds :
        SdkInFlight(c) ~> (sdkCall[c].pc = "done" /\ ~sdkState.compiling)

\* an accepted compile() has finished, the flag is clear again, and the next
\* compile() has been accepted after it
C35_Witness ==
    \E c, d \in SdkIds :
        /\ c < d
        /\ sdkCall[c].pc = "done"
        /\ sdkCall[c].outcome \in {"success", "failure"}
        /\ "compiler" \in sdkCall[c].insts
        /\ SdkInFlight(d)

\* ------------------------------------------------ toolchain loader: claims
\* C9: a pack store failure during load() (the store unavailable, a get or a
\* put request failing) is not fatal: load() never rejects with the store's
\* error, and it resolves whenever the pack it fetched is a valid one.
C9_PackStoreFailureNotFatal ==
    \A l \in TlIds :
        tlLoad[l].pc = "done"
        => /\ tlLoad[l].error # "request.error"
           /\ (tlLoad[l].storeFault /\ tlLoad[l].outcome = "rejected")
              => /\ tlLoad[l].fetched
                 /\ ParsePack(tlLoad[l].packData, <<>>).err # ""

\* C11: load(url) fetches only when the pack store holds no bytes for url. A
\* get that finds stored bytes makes load() parse exactly those bytes without
\* any fetch; a get that finds nothing makes it fetch once, and the put that
\* follows leaves the fetched bytes in the store, where they stay, so that a
\* later load hits. (Steps on which a store request itself fails are C9's.)
C11_FetchOnlyOnMiss ==
    [][\A l \in TlIds :
        LET a == tlLoad[l]
            b == tlLoad'[l]
        IN  /\ (a.pc = "get" /\ b.pc # "get" /\ ~b.storeFault)
               => IF tlStore.has
                  THEN /\ b.pc = "done" /\ b.fromCache /\ ~b.fetched
                       /\ b.packData = tlStore.data
                       /\ tlFetches' = tlFetches
                  ELSE b.pc = "fetch" /\ tlFetches' = tlFetches + 1
            /\ (a.pc # "fetch" /\ b.pc = "fetch")
               => ~tlStore.has \/ b.storeFault
            /\ (a.pc = "put" /\ b.pc # "put" /\ ~b.storeFault)
               => tlStore' = [has |-> TRUE, data |-> a.packData]
            /\ tlStore.has => tlStore'.has
      ]_vars

\* a first load missed, fetched the pack and stored it; a second load then hit
\* the store and was parsed from it, with one fetch made in all
C11_Witness ==
    /\ tlLoad[1].pc = "done" /\ tlLoad[1].fetched /\ ~tlLoad[1].storeFault
    /\ tlLoad[2].pc = "done" /\ tlLoad[2].fromCache /\ tlLoad[2].loaded
    /\ tlLoad[2].packData = tlLoad[1].packData
    /\ tlFetches = 1

\* C34: a pack that fails validation is fatal only for the load that parsed
\* it: the pack store never holds a pack that parseToolchain rejects, and a
\* load() that took its pack from the store does not fail with a format error
\* (after a failed load, the next one fetches the pack again).
C34_InvalidPackNotStored ==
    /\ tlStore.has => ParsePack(tlStore.data, <<>>).err = ""
    /\ \A l \in TlIds :
          (tlLoad[l].fromCache /\ tlLoad[l].pc = "done")
             => tlLoad[l].outcome = "resolved"

====
